---- MODULE Spec2Model ----
(***************************************************************************)
(* The HITL session workflow of backend/services/forge_service.py          *)
(* (ForgeService), with the code validator of backend/utils/               *)
(* code_validator.py and the tool registry of backend/utils/               *)
(* tool_registry.py.                                                       *)
(*                                                                         *)
(* Spec follows the committed state of one session (one LangGraph thread)  *)
(* through the pipeline.  Its checkpoint holds the committed ForgeState    *)
(* ("values"), the graph node that wrote it last ("as_node") and the nodes *)
(* still pending ("next").  ValidatorSpec is the code validator on its     *)
(* own, ServiceSpec the service called with two session ids, with the      *)
(* files the calls write and the values they return, and LoopSpec two      *)
(* requests on one session as coroutines of the event loop.  SessionSpec   *)
(* is the SessionService with the /forge/start endpoint.  Strings that     *)
(* the code takes apart are modelled by what the code does with them:      *)
(*   - a file path is the sequence of its "/"-separated components         *)
(*     (the value of path.split("/")), so "" is <<"">> and "/base.py" is   *)
(*     <<"", "base.py">>;                                                  *)
(*   - a dotted module name is the sequence of its "."-separated parts;    *)
(*   - a source text is a token, and ast.parse on it is the table Parse.   *)
(* template_code is a Python dict: an insertion-ordered sequence of        *)
(* [k, v] entries.                                                         *)
(***************************************************************************)
EXTENDS Integers, Sequences, FiniteSets, TLC

\* Bounds of the model.
MaxOps == 4
MaxTools == 2
MaxFiles == 3

\* checkpoint, temp_tools, nops, last_call: one session driven through the
\* public operations of ForgeService.  template_files, all_errors: a file map
\* handed to CodeValidator.validate_template and the list it returned.
\* threads, disk, result: the checkpoints of several sessions in the
\* MemorySaver, the files on the server's disk and what the last call
\* returned.
\* coroutines, running: the calls in flight on the event loop of the server
\* and the one the loop is executing.
\* session_service, uuids: the SessionService of the server and the ids that
\* uuid.uuid4() has returned so far.
VARIABLES checkpoint, temp_tools, nops, last_call, template_files, all_errors,
          threads, disk, result, coroutines, running, session_service, uuids

vars == <<checkpoint, temp_tools, nops, last_call, template_files, all_errors,
          threads, disk, result, coroutines, running,
                   session_service, uuids>>

-----------------------------------------------------------------------------
(* Python dicts *)

\* dict.get(k, default) on a dict modelled as a TLA+ function / record.
Get(d, k, default) == IF k \in DOMAIN d THEN d[k] ELSE default

EmptyDict == <<>>

\* d[k] = v on a dict modelled as a function: the key is added when the dict
\* does not have it.
DictSet(d, k, v) ==
    IF k \in DOMAIN d THEN [d EXCEPT ![k] = v]
    ELSE [x \in (DOMAIN d) \cup {k} |-> IF x = k THEN v ELSE d[x]]

\* Insertion-ordered dict (template_code): sequence of [k, v].
ODKeys(d) == {d[i].k : i \in 1..Len(d)}

ODHas(d, k) == k \in ODKeys(d)

ODGet(d, k) == d[CHOOSE i \in 1..Len(d) : d[i].k = k].v

\* d[k] = v : an existing key keeps its position, a new key goes last.
ODPut(d, k, v) ==
    IF ODHas(d, k)
    THEN [i \in 1..Len(d) |-> IF d[i].k = k THEN [k |-> k, v |-> v] ELSE d[i]]
    ELSE Append(d, [k |-> k, v |-> v])

\* del d[k]
ODDel(d, k) ==
    LET Keep(e) == e.k # k IN SelectSeq(d, Keep)

-----------------------------------------------------------------------------
(* Strings *)

\* str.lower() on the tool names of the model.
Lower(s) ==
    CASE s = "Alert" -> "alert"
      [] OTHER -> s

\* "/".join(parts), as the component sequence of the joined string.
JoinSlash(parts) == IF parts = <<>> THEN <<"">> ELSE parts

RECURSIVE JoinDots(_)
\* ".".join(parts) as a string.
JoinDots(parts) ==
    IF parts = <<>> THEN ""
    ELSE IF Len(parts) = 1 THEN parts[1]
    ELSE parts[1] \o "." \o JoinDots(Tail(parts))

\* f"tools/{tool_name.lower()}.py"
ToolKey(tool_name) == <<"tools", Lower(tool_name) \o ".py">>

\* file_path.startswith("tools/")
StartsWithTools(file_path) == Len(file_path) >= 2 /\ file_path[1] = "tools"

\* The file names of the model that end in ".py".
PyStems == {"logic", "base", "b", "social_checker", "trade_executor", "crypto_price",
            "alert", "ghost", "typing", "__init__", "main"}

PyFileNames == {s \o ".py" : s \in PyStems}

\* file_path.endswith('.py')
EndsWithPy(file_path) == file_path[Len(file_path)] \in PyFileNames

\* "base" in module_name
ContainsBase(module) == \E i \in 1..Len(module) : module[i] \in {"base"}

-----------------------------------------------------------------------------
(* Source texts and ast.parse *)

\* "from .base import Tool, ToolType" (line 1 of every platform tool).
FromDotBase == [kind |-> "ImportFrom", level |-> 1, module |-> <<"base">>, line |-> 1]

\* "import b": the import of a module of the template by its name.
ImportB == [kind |-> "Import", level |-> 0, module |-> <<"b">>, line |-> 1]

\* "from typing import Dict, Any": an absolute import of a library.
FromTyping == [kind |-> "ImportFrom", level |-> 0, module |-> <<"typing">>, line |-> 2]

\* The source texts of the model.  "valid" parses and imports nothing local,
\* "broken" does not parse, "" is the empty text, "import_b" is the one line
\* "import b", "too_deep" is an expression nested so deeply that the parser
\* gives up with an exception that is not a SyntaxError; the others are the
\* files of backend/template and backend/utils/tools_storage.
Contents == {"", "valid", "broken", "import_b", "too_deep", "tpl_logic",
             "tpl_base", "tpl_social", "tpl_trade", "reg_crypto_price"}

\* ast.parse(code): whether it returns a tree, whether it raises an exception
\* other than SyntaxError, and the Import and ImportFrom nodes of the tree in
\* ast.walk order.
Parse(code) ==
    CASE code = "broken" ->
           [ok |-> FALSE, crash |-> FALSE, imports |-> <<>>]
      [] code = "too_deep" ->
           [ok |-> FALSE, crash |-> TRUE, imports |-> <<>>]
      [] code = "import_b" ->
           [ok |-> TRUE, crash |-> FALSE, imports |-> <<ImportB>>]
      [] code \in {"tpl_social", "tpl_trade", "reg_crypto_price"} ->
           [ok |-> TRUE, crash |-> FALSE, imports |-> <<FromDotBase, FromTyping>>]
      [] code \in {"tpl_logic", "tpl_base"} ->
           [ok |-> TRUE, crash |-> FALSE, imports |-> <<FromTyping>>]
      [] OTHER ->
           [ok |-> TRUE, crash |-> FALSE, imports |-> <<>>]

-----------------------------------------------------------------------------
(* CodeValidator *)

CodeValidationError(file_path, error_type, message, line_number) ==
    [file_path |-> file_path, error_type |-> error_type,
     message |-> message, line_number |-> line_number]

\* The value None of an Optional[str] path.
None == <<>>

\* The value None of an Optional[int] line number.
NoLine == 0

_validate_syntax(file_path, code) ==
    IF Parse(code).ok THEN <<>>
    ELSE IF Parse(code).crash
    THEN <<CodeValidationError(file_path, "syntax", <<"Unexpected error">>, NoLine)>>
    ELSE <<CodeValidationError(file_path, "syntax", <<"invalid syntax">>, 1)>>

_resolve_relative_import(file_path, level, module_name) ==
    IF module_name = <<>> THEN None
    ELSE
      LET file_dir == JoinSlash(SubSeq(file_path, 1, Len(file_path) - 1))
          parts == file_dir
      IN IF level > Len(parts) THEN None
         ELSE
           LET parent_dir == IF level > 0
                             THEN JoinSlash(SubSeq(parts, 1, Len(parts) - level))
                             ELSE file_dir
           IN parent_dir \o <<JoinDots(module_name) \o ".py">>

\* module_name.startswith('.')
StartsWithDot(module) == module # <<>> /\ module[1] = ""

\* ".base" in module_name
ContainsDotBase(module) == \E i \in 2..Len(module) : module[i] = "base"

\* The errors one Import node adds.
ImportNodeErrors(file_path, node, template_code) ==
    IF StartsWithDot(node.module)
       /\ StartsWithTools(file_path) /\ ContainsDotBase(node.module)
       /\ ~ODHas(template_code, <<"tools", "base.py">>)
    THEN <<CodeValidationError(file_path, "import",
                               <<"base.py not found in tools directory">>, node.line)>>
    ELSE <<>>

\* The errors one ImportFrom node adds.
ImportFromErrors(file_path, node, template_code) ==
    IF node.level > 0
    THEN
      LET imported_module_path ==
              _resolve_relative_import(file_path, node.level, node.module)
          base_error ==
              IF StartsWithTools(file_path) /\ ContainsBase(node.module)
                 /\ ~ODHas(template_code, <<"tools", "base.py">>)
              THEN <<CodeValidationError(file_path, "import",
                                         <<"base.py not found">>, node.line)>>
              ELSE <<>>
          resolve_error ==
              IF imported_module_path # None
                 /\ ~ODHas(template_code, imported_module_path)
              THEN <<CodeValidationError(file_path, "import",
                                         imported_module_path, node.line)>>
              ELSE <<>>
      IN base_error \o resolve_error
    ELSE
      IF StartsWithTools(file_path) /\ Len(node.module) >= 2
         /\ node.module[1] = "tools"
      THEN
        LET tool_name == node.module[Len(node.module)]
            tool_path == <<"tools", tool_name \o ".py">>
        IN IF ~ODHas(template_code, tool_path) /\ tool_name # "__init__"
           THEN <<CodeValidationError(file_path, "import", tool_path, node.line)>>
           ELSE <<>>
      ELSE <<>>

RECURSIVE ImportErrors(_, _, _)
ImportErrors(file_path, nodes, template_code) ==
    IF nodes = <<>> THEN <<>>
    ELSE (IF Head(nodes).kind = "Import"
          THEN ImportNodeErrors(file_path, Head(nodes), template_code)
          ELSE ImportFromErrors(file_path, Head(nodes), template_code))
         \o ImportErrors(file_path, Tail(nodes), template_code)

_validate_imports(file_path, code, template_code) ==
    IF Parse(code).crash
    THEN <<CodeValidationError(file_path, "import",
                               <<"Error validating imports">>, NoLine)>>
    ELSE ImportErrors(file_path, Parse(code).imports, template_code)

\* validate_code that goes straight to the imports and reports no syntax
\* error.
validate_code_imports_only(file_path, code, template_code) ==
    _validate_imports(file_path, code, template_code)

\* validate_code that checks the imports whether or not the syntax check
\* reported an error.
validate_code_both_checks(file_path, code, template_code) ==
    _validate_syntax(file_path, code)
    \o _validate_imports(file_path, code, template_code)

validate_code(file_path, code, template_code) ==
    LET syntax_errors == _validate_syntax(file_path, code)
    IN IF syntax_errors = <<>>
       THEN _validate_imports(file_path, code, template_code)
       ELSE syntax_errors

RECURSIVE ValidateEntries_every_file(_, _)
\* The loop of validate_template without the test for the .py extension.
ValidateEntries_every_file(entries, template_code) ==
    IF entries = <<>> THEN <<>>
    ELSE validate_code(Head(entries).k, Head(entries).v, template_code)
         \o ValidateEntries_every_file(Tail(entries), template_code)

RECURSIVE ValidateEntries(_, _)
\* The loop of validate_template over template_code.items().
ValidateEntries(entries, template_code) ==
    IF entries = <<>> THEN <<>>
    ELSE (IF EndsWithPy(Head(entries).k)
          THEN validate_code(Head(entries).k, Head(entries).v, template_code)
          ELSE <<>>)
         \o ValidateEntries(Tail(entries), template_code)

\* validate_template that reports the errors of a map on the first call only,
\* as a validator that remembers what it has reported.
validate_template_first_call_only(template_code) ==
    IF last_call.op = "none"
    THEN ValidateEntries(template_code, template_code)
    ELSE <<>>

validate_template(template_code) == ValidateEntries(template_code, template_code)

-----------------------------------------------------------------------------
(* ToolRegistry *)

\* The *.py files of utils/tools_storage, by stem.
PlatformToolFiles == {"crypto_price"}

PlatformToolSource(stem) == "reg_crypto_price"

\* The ValueError of get_tool_code.
ToolNotFound == "ValueError: tool not found"

RECURSIVE FindTempTool(_, _)
FindTempTool(tools, tool_name) ==
    IF tools = <<>> THEN ToolNotFound
    ELSE IF Head(tools).name = tool_name THEN Head(tools).code
    ELSE FindTempTool(Tail(tools), tool_name)

RECURSIVE FindInUsers(_, _)
\* The loop over self.temp_tools.values(); temp is the insertion-ordered dict
\* user_id -> list of tools.
FindInUsers(temp, tool_name) ==
    IF temp = <<>> THEN ToolNotFound
    ELSE LET r == FindTempTool(Head(temp).v, tool_name)
         IN IF r # ToolNotFound THEN r
            ELSE FindInUsers(Tail(temp), tool_name)

get_tool_code(temp, tool_name) ==
    IF tool_name \in PlatformToolFiles THEN PlatformToolSource(tool_name)
    ELSE FindInUsers(temp, tool_name)

add_temp_tool(temp, user_id, tool) ==
    IF ODHas(temp, user_id)
    THEN ODPut(temp, user_id, Append(ODGet(temp, user_id), tool))
    ELSE ODPut(temp, user_id, <<tool>>)

-----------------------------------------------------------------------------
(* Inputs: what callers, the LLM and the filesystem can supply *)

Users == {"u1"}

SessionId == "s1"

\* Tool records a caller can submit: a platform tool without inline code, a
\* tool with inline code and a mixed-case name, and a tool without inline
\* code that the registry does not know.
ToolUniverse == {[name |-> "crypto_price", code |-> ""],
                 [name |-> "Alert", code |-> "valid"],
                 [name |-> "ghost", code |-> ""]}

ToolLists == UNION {[1..n -> ToolUniverse] : n \in 0..MaxTools}

Prompts == {"watch btc", "sell on drop"}

Requirements == {"", "a tool that sends mail"}

\* Texts a caller can send as new file content.
EditContents == {"valid", "broken"}

\* Paths a caller can name in a code edit.
EditPaths == {<<"logic.py">>, <<"tools", "social_checker.py">>,
              <<"tools", "trade_executor.py">>}

\* Answer lists a caller can submit.
AnswerLists == {<<>>, <<[question |-> "Is everything in order to continue?",
                         answer |-> "yes"]>>}

\* Tool changes a caller can submit.
ToolChangeInputs == {[add |-> <<"crypto_price">>, remove |-> <<>>],
                     [add |-> <<>>, remove |-> <<"ghost">>]}

Confirmation == "Is everything in order to continue?"

\* A line of an LLM answer: its stripped text, whether it holds "?" and is
\* longer than 10 characters, which of the words "questions" / "summary" its
\* lower-cased text holds, and how it holds the confirmation text ("full":
\* as a substring, "head": it ends with "Is everything in order", "tail": it
\* starts with "to continue?").
Line(text, q, words, conf) == [text |-> text, q |-> q, words |-> words, conf |-> conf]

LLMContents ==
    {<<Line("Questions:", FALSE, {"questions"}, "none"),
       Line("Which asset should be monitored?", TRUE, {}, "none")>>,
     <<Line("Summary:", FALSE, {"summary"}, "none"),
       Line("Monitor the price of BTC", FALSE, {}, "none"),
       Line("Questions:", FALSE, {"questions"}, "none"),
       Line("Is everything in order to continue?", TRUE, {}, "full")>>,
     <<Line("Nothing to ask.", FALSE, {}, "none")>>,
     <<Line("Questions:", FALSE, {"questions"}, "none"),
       Line("1. Is everything in order to continue?", TRUE, {}, "full"),
       Line("2. Which asset should be monitored?", TRUE, {}, "none")>>}

\* Logic modules the code-generation oracle can return.
LogicCodes == {"valid", "broken"}

\* Tool lists the code-generation oracle can return.
GeneratedToolLists == {<<[name |-> "CustomTool", code |-> "valid", type |-> "reactive"]>>}

\* The files of backend/template that _copy_template_to_agent copies, in the
\* order os.walk lists them (the root first; the order inside tools/ is the
\* filesystem's).
TemplateListings ==
    {<<[k |-> <<"logic.py">>, v |-> "tpl_logic"],
       [k |-> <<"tools", "base.py">>, v |-> "tpl_base"],
       [k |-> <<"tools", "social_checker.py">>, v |-> "tpl_social"],
       [k |-> <<"tools", "trade_executor.py">>, v |-> "tpl_trade"]>>,
     <<[k |-> <<"logic.py">>, v |-> "tpl_logic"],
       [k |-> <<"tools", "trade_executor.py">>, v |-> "tpl_trade"],
       [k |-> <<"tools", "social_checker.py">>, v |-> "tpl_social"],
       [k |-> <<"tools", "base.py">>, v |-> "tpl_base"]>>}

\* What the collaborators answer during one call.
Oracles == [listing : TemplateListings, llm : LLMContents, logic : LogicCodes,
            generated : GeneratedToolLists]

-----------------------------------------------------------------------------
(* ForgeService: the stage functions (graph nodes) *)

\* The ForgeState that start_session builds.
InitialState(session_id, user_id) ==
    [session_id |-> session_id,
     user_message |-> "",
     selected_tools |-> <<>>,
     agent_config |-> [user_id |-> user_id],
     generated_tools |-> <<>>,
     logic_code |-> "",
     agent_id |-> "",
     current_step |-> "starting",
     waiting_for_input |-> FALSE,
     waiting_stage |-> "",
     template_code |-> <<>>,
     code_errors |-> <<>>,
     user_clarifications |-> <<>>,
     tool_changes |-> EmptyDict,
     agent_dir_path |-> "",
     custom_tool_requirements |-> "",
     finalize |-> FALSE]

\* listing: what _copy_template_to_agent returns for TEMPLATE_DIR.
_initialize_template(state, listing) ==
    [state EXCEPT !.template_code = listing,
                  !.current_step = "initialized"]

\* _wait_for_tools with the stage name of _wait_for_prompt pasted in.
_wait_for_tools_as_prompt(state) ==
    [state EXCEPT !.waiting_for_input = TRUE,
                  !.waiting_stage = "prompt",
                  !.current_step = "waiting_for_prompt"]

_wait_for_tools(state) ==
    [state EXCEPT !.waiting_for_input = TRUE,
                  !.waiting_stage = "tools",
                  !.current_step = "waiting_for_tools"]

_update_tools_state(state) ==
    DictSet(DictSet(DictSet(state, "waiting_for_input", FALSE),
                    "waiting_stage", ""),
            "current_step", "tools_selected")

\* TOOLS_BASE_PY_PATH.exists(): utils/tools_storage holds no base.py.
ToolsBasePyExists == FALSE

RECURSIVE AddPlatformToolFiles(_, _, _)
\* The loop of _add_platform_tools over state["selected_tools"].
AddPlatformToolFiles(tools, template_code, temp) ==
    IF tools = <<>> THEN template_code
    ELSE
      LET tool == Head(tools)
          tool_name == Get(tool, "name", "")
          tool_code == Get(tool, "code", "")
          platform_code == get_tool_code(temp, tool_name)
          next_code ==
              IF tool_code # ""
              THEN ODPut(template_code, ToolKey(tool_name), tool_code)
              ELSE IF platform_code # ToolNotFound
                   THEN ODPut(template_code, ToolKey(tool_name), platform_code)
                   ELSE template_code   \* except: pass
      IN AddPlatformToolFiles(Tail(tools), next_code, temp)

\* Path(state["agent_dir_path"]) raises KeyError on a state that has no
\* agent_dir_path.
KeyErrorIn_add_platform_tools(state) == "agent_dir_path" \notin DOMAIN state

_add_platform_tools(state, temp) ==
    LET with_base ==
            IF ToolsBasePyExists /\ ~ODHas(state.template_code, <<"tools", "base.py">>)
            THEN ODPut(state.template_code, <<"tools", "base.py">>, "tpl_base")
            ELSE state.template_code
    IN [state EXCEPT
          !.template_code = AddPlatformToolFiles(state.selected_tools, with_base, temp),
          !.current_step = "tools_added"]

_should_wait_for_custom_tools(state) ==
    LET wants_custom == Get(Get(state, "agent_config", EmptyDict),
                            "wants_custom_tools", FALSE)
    IN IF wants_custom THEN "yes" ELSE "no"

_wait_for_custom_tools(state) ==
    [state EXCEPT !.waiting_for_input = TRUE,
                  !.waiting_stage = "custom_tools",
                  !.current_step = "waiting_for_custom_tools"]

_update_custom_tools_state(state) ==
    [state EXCEPT !.waiting_for_input = FALSE,
                  !.waiting_stage = "",
                  !.current_step = "custom_tools_requirements_received"]

RECURSIVE AddCustomToolFiles(_, _)
AddCustomToolFiles(generated, template_code) ==
    IF generated = <<>> THEN template_code
    ELSE
      LET tool == Head(generated)
          tool_code == Get(tool, "code", "")
      IN AddCustomToolFiles(Tail(generated),
             IF tool_code # ""
             THEN ODPut(template_code, ToolKey(Get(tool, "name", "")), tool_code)
             ELSE template_code)

RECURSIVE AddTempTools(_, _, _)
AddTempTools(generated, temp, user_id) ==
    IF generated = <<>> THEN temp
    ELSE AddTempTools(Tail(generated), add_temp_tool(temp, user_id, Head(generated)),
                      user_id)

\* w is [state, temp]: the stage also writes the registry's temp_tools.
_add_custom_tools(w, generated) ==
    IF w.state.custom_tool_requirements = "" THEN w
    ELSE
      LET state == w.state
          user_id == Get(state.agent_config, "user_id", "default")
          with_base ==
              IF ToolsBasePyExists /\ ~ODHas(state.template_code, <<"tools", "base.py">>)
              THEN ODPut(state.template_code, <<"tools", "base.py">>, "tpl_base")
              ELSE state.template_code
      IN [state |-> [state EXCEPT
                       !.generated_tools = generated,
                       !.template_code = AddCustomToolFiles(generated, with_base),
                       !.current_step = "custom_tools_added"],
          temp |-> AddTempTools(generated, w.temp, user_id)]

_wait_for_prompt(state) ==
    [state EXCEPT !.waiting_for_input = TRUE,
                  !.waiting_stage = "prompt",
                  !.current_step = "waiting_for_prompt"]

_update_prompt_state(state) ==
    DictSet(DictSet(DictSet(state, "waiting_for_input", FALSE),
                    "waiting_stage", ""),
            "current_step", "prompt_received")

\* "word" in content.lower()
ContentHasWord(content, word) == \E i \in 1..Len(content) : word \in content[i].words

\* confirmation in " ".join(questions), for the question lines qs.
JoinedHasConfirmation(qs) ==
    \/ \E i \in 1..Len(qs) : qs[i].conf = "full"
    \/ \E i \in 1..(Len(qs) - 1) : qs[i].conf = "head" /\ qs[i + 1].conf = "tail"

DefaultQuestions ==
    <<"Can you confirm the beneficiary details for the will?",
      "What should happen if you become inactive?",
      Confirmation>>

\* The question list _clarify_intent extracts from the LLM answer.
ClarifyQuestions(content) ==
    LET IsQuestion(line) == line.q
        qlines == IF ContentHasWord(content, "questions")
                  THEN SelectSeq(content, IsQuestion)
                  ELSE <<>>
        texts == [i \in 1..Len(qlines) |-> qlines[i].text]
        questions == IF ~JoinedHasConfirmation(qlines)
                     THEN Append(texts, Confirmation)
                     ELSE texts
    IN IF questions = <<>> THEN DefaultQuestions ELSE questions

\* The summary _clarify_intent extracts: the line after the first line that
\* holds "summary" and has a successor.
ClarifySummary(content) ==
    LET hits == {i \in 1..(Len(content) - 1) : "summary" \in content[i].words}
    IN IF ContentHasWord(content, "summary") /\ hits # {}
       THEN content[(CHOOSE i \in hits : \A j \in hits : i <= j) + 1].text
       ELSE ""

\* _clarify_intent that fills every answer in with "yes".
_clarify_intent_answered(state, content) ==
    [state EXCEPT
       !.user_clarifications =
           [i \in 1..Len(ClarifyQuestions(content)) |->
               [question |-> ClarifyQuestions(content)[i], answer |-> "yes"]],
       !.current_step = "intent_clarified"]

_clarify_intent(state, content) ==
    LET questions == ClarifyQuestions(content)
        summary == ClarifySummary(content)
        asked == DictSet(state, "user_clarifications",
                     [i \in 1..Len(questions) |->
                         [question |-> questions[i], answer |-> ""]])
        summarised == IF summary # ""
                      THEN DictSet(asked, "agent_config",
                                   DictSet(asked.agent_config, "summary", summary))
                      ELSE asked
    IN DictSet(summarised, "current_step", "intent_clarified")

\* state["agent_config"]["summary"] = summary raises KeyError on a state
\* that has no agent_config.
KeyErrorIn_clarify_intent(state, content) ==
    ClarifySummary(content) # "" /\ "agent_config" \notin DOMAIN state

_wait_for_clarification(state) ==
    DictSet(DictSet(DictSet(state, "waiting_for_input", TRUE),
                    "waiting_stage", "clarification"),
            "current_step", "waiting_for_clarification")

\* A variant that forgets the requirement text.
_update_clarification_state_forgetting(state) ==
    [state EXCEPT !.waiting_for_input = FALSE,
                  !.waiting_stage = "",
                  !.user_message = "",
                  !.current_step = "clarification_received"]

_update_clarification_state(state) ==
    [state EXCEPT !.waiting_for_input = FALSE,
                  !.waiting_stage = "",
                  !.current_step = "clarification_received"]

\* A variant that suggests removing every selected tool.
_review_tools_suggesting(state, content) ==
    [state EXCEPT
       !.tool_changes =
           [add |-> <<>>,
            remove |-> [i \in 1..Len(state.selected_tools) |->
                           state.selected_tools[i].name],
            reason |-> "Tool review completed"],
       !.current_step = "tools_reviewed"]

\* The parsing of the LLM answer is "pass": the suggestion is always empty.
_review_tools(state, content) ==
    [state EXCEPT
       !.tool_changes = [add |-> <<>>, remove |-> <<>>,
                         reason |-> "Tool review completed"],
       !.current_step = "tools_reviewed"]

_wait_for_tool_review(state) ==
    [state EXCEPT !.waiting_for_input = TRUE,
                  !.waiting_stage = "tool_review",
                  !.current_step = "waiting_for_tool_review"]

_update_tool_review_state(state) ==
    [state EXCEPT !.waiting_for_input = FALSE,
                  !.waiting_stage = "",
                  !.current_step = "tool_review_completed"]

_has_tool_changes(state) ==
    LET changes == Get(state, "tool_changes", EmptyDict)
        add_tools == Get(changes, "add", <<>>)
        remove_tools == Get(changes, "remove", <<>>)
    IN IF add_tools # <<>> \/ remove_tools # <<>> THEN "yes" ELSE "no"

\* The names in a Python list.
Elems(list) == {list[i] : i \in 1..Len(list)}

RECURSIVE DeleteToolFiles(_, _)
DeleteToolFiles(remove_tools, template_code) ==
    IF remove_tools = <<>> THEN template_code
    ELSE DeleteToolFiles(Tail(remove_tools),
                         ODDel(template_code, ToolKey(Head(remove_tools))))

\* tool_registry.list_tools()["tools"] without a user_id: the platform tools.
PlatformToolsList ==
    <<[name |-> "crypto_price", description |-> "ACTIVE tool: Monitors crypto price continuously",
       code |-> "reg_crypto_price"]>>

RECURSIVE AppendAvailable(_, _)
AppendAvailable(add_tools, selected_tools) ==
    IF add_tools = <<>> THEN selected_tools
    ELSE
      LET hits == {i \in 1..Len(PlatformToolsList) :
                      Lower(PlatformToolsList[i].name) = Lower(Head(add_tools))}
      IN AppendAvailable(Tail(add_tools),
             IF hits # {}
             THEN Append(selected_tools,
                         PlatformToolsList[CHOOSE i \in hits : \A j \in hits : i <= j])
             ELSE selected_tools)

\* _apply_tool_changes that empties selected_tools whenever something is to be
\* removed.
_apply_tool_changes_clearing(state) ==
    LET remove_tools == Get(Get(state, "tool_changes", EmptyDict), "remove", <<>>)
    IN [state EXCEPT
          !.selected_tools = IF remove_tools # <<>> THEN <<>> ELSE @,
          !.current_step = "tool_changes_applied"]

_apply_tool_changes(state) ==
    LET changes == Get(state, "tool_changes", EmptyDict)
        add_tools == Get(changes, "add", <<>>)
        remove_tools == Get(changes, "remove", <<>>)
        Kept(t) == Get(t, "name", "") \notin Elems(remove_tools)
        after_remove ==
            IF remove_tools # <<>>
            THEN [state EXCEPT
                    !.selected_tools = SelectSeq(@, Kept),
                    !.template_code = DeleteToolFiles(remove_tools, @)]
            ELSE state
    IN [after_remove EXCEPT
          !.selected_tools = AppendAvailable(add_tools, @),
          !.current_step = "tool_changes_applied"]

_generate_logic(state, logic_code) ==
    [state EXCEPT !.logic_code = logic_code,
                  !.template_code = ODPut(@, <<"logic.py">>, logic_code),
                  !.current_step = "logic_generated"]

_validate_code(state) ==
    [state EXCEPT !.code_errors = validate_template(state.template_code),
                  !.current_step = "code_validated"]

\* _has_code_errors that never reports errors.
_has_code_errors_ignored(state) == "no"

_has_code_errors(state) ==
    LET errors == Get(state, "code_errors", <<>>)
    IN IF errors # <<>> THEN "yes" ELSE "no"

_wait_for_code_review(state) ==
    [state EXCEPT !.waiting_for_input = TRUE,
                  !.waiting_stage = "code_review",
                  !.current_step = "waiting_for_code_review"]

_update_code_state(state) ==
    [state EXCEPT !.waiting_for_input = FALSE,
                  !.waiting_stage = "",
                  !.current_step = "code_updated"]

_finalize_agent(state) ==
    [state EXCEPT !.current_step = "finalized",
                  !.waiting_for_input = FALSE]

-----------------------------------------------------------------------------
(* The compiled graph of _build_graph and its checkpointed execution *)

END == "__end__"

START == "__start__"

\* The node a finished node hands over to: its edge, or the result of its
\* conditional edge on the state it wrote; END when it has no outgoing edge
\* (wait_for_tools, wait_for_tool_review and update_tool_review_state have
\* none) or its edge leads to END.
Router(node, state) ==
    CASE node = START -> "initialize_template"
      [] node = "initialize_template" -> "wait_for_tools"
      [] node = "update_tools_state" -> "add_platform_tools"
      [] node = "add_platform_tools" ->
           (IF _should_wait_for_custom_tools(state) = "yes"
            THEN "wait_for_custom_tools" ELSE "wait_for_prompt")
      [] node = "update_custom_tools_state" -> "add_custom_tools"
      [] node = "add_custom_tools" -> "wait_for_prompt"
      [] node = "update_prompt_state" -> "clarify_intent"
      [] node = "clarify_intent" -> "wait_for_clarification"
      [] node = "update_clarification_state" -> "review_tools"
      [] node = "review_tools" ->
           (IF _has_tool_changes(state) = "yes"
            THEN "apply_tool_changes" ELSE "generate_logic")
      [] node = "apply_tool_changes" -> "generate_logic"
      [] node = "generate_logic" -> "validate_code"
      [] node = "validate_code" ->
           (IF _has_code_errors(state) = "yes"
            THEN "wait_for_code_review" ELSE "finalize_agent")
      [] node = "update_code_state" -> "validate_code"
      [] OTHER -> END

\* One node's function applied to r = [state, temp, as_node]; oracle holds
\* what the collaborators answer during this run.
RunNode(node, r, oracle) ==
    LET st == r.state
        OnState(new_state) == [state |-> new_state, temp |-> r.temp, as_node |-> node]
    IN CASE node = "initialize_template" -> OnState(_initialize_template(st, oracle.listing))
         [] node = "wait_for_tools" -> OnState(_wait_for_tools(st))
         [] node = "update_tools_state" -> OnState(_update_tools_state(st))
         [] node = "add_platform_tools" -> OnState(_add_platform_tools(st, r.temp))
         [] node = "wait_for_custom_tools" -> OnState(_wait_for_custom_tools(st))
         [] node = "update_custom_tools_state" -> OnState(_update_custom_tools_state(st))
         [] node = "add_custom_tools" ->
              LET w == _add_custom_tools([state |-> st, temp |-> r.temp], oracle.generated)
              IN [state |-> w.state, temp |-> w.temp, as_node |-> node]
         [] node = "wait_for_prompt" -> OnState(_wait_for_prompt(st))
         [] node = "update_prompt_state" -> OnState(_update_prompt_state(st))
         [] node = "clarify_intent" -> OnState(_clarify_intent(st, oracle.llm))
         [] node = "wait_for_clarification" -> OnState(_wait_for_clarification(st))
         [] node = "update_clarification_state" -> OnState(_update_clarification_state(st))
         [] node = "review_tools" -> OnState(_review_tools(st, oracle.llm))
         [] node = "wait_for_tool_review" -> OnState(_wait_for_tool_review(st))
         [] node = "update_tool_review_state" -> OnState(_update_tool_review_state(st))
         [] node = "apply_tool_changes" -> OnState(_apply_tool_changes(st))
         [] node = "generate_logic" -> OnState(_generate_logic(st, oracle.logic))
         [] node = "validate_code" -> OnState(_validate_code(st))
         [] node = "wait_for_code_review" -> OnState(_wait_for_code_review(st))
         [] node = "update_code_state" -> OnState(_update_code_state(st))
         [] node = "finalize_agent" -> OnState(_finalize_agent(st))

RECURSIVE RunFrom(_, _, _)
\* The graph run from a node until a node hands over to END.
RunFrom(node, r, oracle) ==
    IF node = END THEN r
    ELSE LET done == RunNode(node, r, oracle)
         IN RunFrom(Router(node, done.state), done, oracle)

\* The checkpoint of a thread nothing has run on: graph.get_state gives a
\* snapshot with no values.
NoCheckpoint == [values |-> EmptyDict, next |-> <<>>, as_node |-> START]

\* An oracle for runs in which only the template listing can be asked for.
ListingOnly(listing) ==
    [listing |-> listing, llm |-> <<>>, logic |-> "", generated |-> <<>>]

\* An oracle for runs in which only the tool generator can be asked.
GeneratedOnly(generated) ==
    [listing |-> <<>>, llm |-> <<>>, logic |-> "", generated |-> generated]

\* graph.astream(initial_state, config): the input overwrites every channel
\* and the graph runs from its entry point.  w is [checkpoint, temp].
astream_input(w, initial_state, oracle) ==
    LET run == RunFrom(Router(START, initial_state),
                       [state |-> initial_state, temp |-> w.temp, as_node |-> START],
                       oracle)
    IN [checkpoint |-> [values |-> run.state, next |-> <<>>, as_node |-> run.as_node],
        temp |-> run.temp]

\* graph.update_state(config, values) without as_node: the values are written
\* as if by the node that ran last, and that node's edges decide what is
\* pending.
update_state(checkpoint_, values) ==
    LET target == Router(checkpoint_.as_node, values)
    IN [values |-> values,
        next |-> IF target = END THEN <<>> ELSE <<target>>,
        as_node |-> checkpoint_.as_node]

\* graph.astream(None, config): the pending nodes of the checkpoint run; with
\* none pending nothing runs.
astream_resume(w, oracle) ==
    IF w.checkpoint.next = <<>> THEN w
    ELSE LET run == RunFrom(w.checkpoint.next[1],
                            [state |-> w.checkpoint.values, temp |-> w.temp,
                             as_node |-> w.checkpoint.as_node],
                            oracle)
         IN [checkpoint |-> [values |-> run.state, next |-> <<>>,
                             as_node |-> run.as_node],
             temp |-> run.temp]

-----------------------------------------------------------------------------
(* ForgeService: the public operations.  w is [checkpoint, temp]. *)

Committed(w, new_checkpoint) == [checkpoint |-> new_checkpoint, temp |-> w.temp]

start_session(w, session_id, user_id, listing) ==
    astream_input(w, InitialState(session_id, user_id), ListingOnly(listing))

get_state(w) == w.checkpoint.values

\* update_node_map of resume_workflow.
UpdateNodeStages == {"tools", "custom_tools", "prompt", "clarification",
                     "tool_review", "code_review"}

UpdateNode(waiting_stage, state) ==
    CASE waiting_stage = "tools" -> _update_tools_state(state)
      [] waiting_stage = "custom_tools" -> _update_custom_tools_state(state)
      [] waiting_stage = "prompt" -> _update_prompt_state(state)
      [] waiting_stage = "clarification" -> _update_clarification_state(state)
      [] waiting_stage = "tool_review" -> _update_tool_review_state(state)
      [] waiting_stage = "code_review" -> _update_code_state(state)

\* resume_workflow up to its astream: the update node of the waiting stage
\* is invoked and its state committed.
resume_workflow_route(w) ==
    LET state_values == w.checkpoint.values
        waiting_stage == Get(state_values, "waiting_stage", "")
    IN IF waiting_stage \in UpdateNodeStages
          /\ ~Get(state_values, "waiting_for_input", TRUE)
       THEN Committed(w, update_state(w.checkpoint,
                                      UpdateNode(waiting_stage, state_values)))
       ELSE w

resume_workflow(w, oracle) == astream_resume(resume_workflow_route(w), oracle)

\* A KeyError raised by a stage leaves the handler before update_state:
\* nothing is committed.
handle_submit_tools(w, tools) ==
    LET state_values == DictSet(DictSet(w.checkpoint.values, "selected_tools", tools),
                                "waiting_for_input", FALSE)
        tools_added == _add_platform_tools(_update_tools_state(state_values), w.temp)
        updated_state == IF _should_wait_for_custom_tools(tools_added) = "no"
                         THEN _wait_for_prompt(tools_added)
                         ELSE _wait_for_custom_tools(tools_added)
    IN IF KeyErrorIn_add_platform_tools(state_values) THEN w
       ELSE Committed(w, update_state(w.checkpoint, updated_state))

handle_submit_custom_tools(w, requirements, generated) ==
    LET state_values == [w.checkpoint.values EXCEPT
                            !.custom_tool_requirements = requirements,
                            !.waiting_for_input = FALSE]
        updated_state == _update_custom_tools_state(state_values)
    IN resume_workflow(Committed(w, update_state(w.checkpoint, updated_state)),
                       GeneratedOnly(generated))

handle_submit_prompt(w, prompt, content) ==
    LET state_values == DictSet(DictSet(w.checkpoint.values, "user_message", prompt),
                                "waiting_for_input", FALSE)
        updated_state == _wait_for_clarification(
                             _clarify_intent(_update_prompt_state(state_values), content))
    IN IF KeyErrorIn_clarify_intent(state_values, content) THEN w
       ELSE Committed(w, update_state(w.checkpoint, updated_state))

\* handle_submit_clarification that stops after the review and parks the
\* session at tool_review.
handle_submit_clarification_pausing(w, answers, content, logic_code) ==
    LET state_values == [w.checkpoint.values EXCEPT !.user_clarifications = answers,
                                                    !.waiting_for_input = FALSE]
        reviewed == _review_tools(_update_clarification_state(state_values), content)
    IN Committed(w, update_state(w.checkpoint, _wait_for_tool_review(reviewed)))

\* The user_intent that the chain of handle_submit_clarification hands to
\* ai_code.generate_logic: state["user_message"] of the state it has then.
generate_logic_user_intent(w, answers, content) ==
    LET state_values == [w.checkpoint.values EXCEPT !.user_clarifications = answers,
                                                    !.waiting_for_input = FALSE]
        reviewed == _review_tools(_update_clarification_state(state_values), content)
        applied == IF _has_tool_changes(reviewed) = "yes"
                   THEN _apply_tool_changes(reviewed)
                   ELSE reviewed
    IN applied.user_message

handle_submit_clarification(w, answers, content, logic_code) ==
    LET state_values == [w.checkpoint.values EXCEPT !.user_clarifications = answers,
                                                    !.waiting_for_input = FALSE]
        reviewed == _review_tools(_update_clarification_state(state_values), content)
        applied == IF _has_tool_changes(reviewed) = "yes"
                   THEN _apply_tool_changes(reviewed)
                   ELSE reviewed
        validated == _validate_code(_generate_logic(applied, logic_code))
        updated_state == IF _has_code_errors(validated) = "yes"
                         THEN _wait_for_code_review(validated)
                         ELSE _finalize_agent(validated)
    IN Committed(w, update_state(w.checkpoint, updated_state))

handle_submit_tool_review(w, changes) ==
    LET state_values == [w.checkpoint.values EXCEPT !.tool_changes = changes,
                                                    !.waiting_for_input = FALSE]
        updated_state == _update_tool_review_state(state_values)
    IN resume_workflow(Committed(w, update_state(w.checkpoint, updated_state)),
                       GeneratedOnly(<<>>))

\* handle_update_code up to its update_state.
handle_update_code_commit(w, file_path, content) ==
    LET state_values == [w.checkpoint.values EXCEPT
                            !.template_code = ODPut(@, file_path, content),
                            !.waiting_for_input = FALSE]
        updated_state == _update_code_state(state_values)
    IN Committed(w, update_state(w.checkpoint, updated_state))

handle_update_code(w, file_path, content) ==
    resume_workflow(handle_update_code_commit(w, file_path, content),
                    GeneratedOnly(<<>>))

\* handle_finalize_agent that also registers the agent with the registry on
\* every call.
handle_finalize_agent_registering(w) ==
    LET state_values == [w.checkpoint.values EXCEPT !.finalize = TRUE,
                                                    !.waiting_for_input = FALSE]
        updated_state == _finalize_agent(state_values)
        user_id == Get(updated_state.agent_config, "user_id", "default")
    IN [checkpoint |-> update_state(w.checkpoint, updated_state),
        temp |-> add_temp_tool(w.temp, user_id,
                               [name |-> updated_state.session_id, code |-> ""])]

handle_finalize_agent(w) ==
    LET state_values == [w.checkpoint.values EXCEPT !.finalize = TRUE,
                                                    !.waiting_for_input = FALSE]
        updated_state == _finalize_agent(state_values)
    IN Committed(w, update_state(w.checkpoint, updated_state))

-----------------------------------------------------------------------------
(* Several sessions, the disk and the results of the calls *)

\* Thread ids of the MemorySaver.  session_service.create_session gives a
\* user one session, so the two sessions belong to two users.
SessionIds == {"s1", "s2"}

UserOf(session_id) == IF session_id = "s1" THEN "u1" ELSE "u2"

\* The MemorySaver before any call.
NoThreads == [s \in SessionIds |-> NoCheckpoint]

\* The disk: path |-> [content, by], a path being the sequence of its
\* components and `by` the sessions whose calls have written the file.
EmptyDisk == <<>>

DiskWrite(d, path, content, session_id) ==
    [p \in (DOMAIN d) \cup {path} |->
        IF p = path
        THEN [content |-> content,
              by |-> (IF path \in DOMAIN d THEN d[path].by ELSE {}) \cup {session_id}]
        ELSE d[p]]

\* session_id[:8], for the ids of the model, which are shorter.
FirstEight(session_id) == session_id

\* Path(__file__).parent.parent / "Temp" / user_id / agent_id
AgentDir(user_id, session_id) ==
    <<"backend", "Temp", user_id, "agent_" \o FirstEight(session_id)>>

RECURSIVE CopyTemplateFiles(_, _, _, _)
\* The files _copy_template_to_agent writes: every file of the listing, under
\* agent_dir.
CopyTemplateFiles(listing, d, agent_dir, session_id) ==
    IF listing = <<>> THEN d
    ELSE CopyTemplateFiles(Tail(listing),
                           DiskWrite(d, agent_dir \o Head(listing).k,
                                     Head(listing).v, session_id),
                           agent_dir, session_id)

\* Path(state["agent_dir_path"]) / "tools": relative to the working directory
\* of the server when agent_dir_path is "".
ToolsDirPath(state) ==
    IF state.agent_dir_path = "" THEN <<".", "tools">>
    ELSE <<state.agent_dir_path, "tools">>

RECURSIVE WritePlatformToolFiles(_, _, _, _, _)
\* The files the loop of _add_platform_tools writes.
WritePlatformToolFiles(tools, d, tools_dir_path, temp, session_id) ==
    IF tools = <<>> THEN d
    ELSE
      LET tool == Head(tools)
          tool_name == Get(tool, "name", "")
          tool_code == Get(tool, "code", "")
          platform_code == get_tool_code(temp, tool_name)
          file == tools_dir_path \o <<Lower(tool_name) \o ".py">>
          written ==
              IF tool_code # ""
              THEN DiskWrite(d, file, tool_code, session_id)
              ELSE IF platform_code # ToolNotFound
                   THEN DiskWrite(d, file, platform_code, session_id)
                   ELSE d   \* except: pass
      IN WritePlatformToolFiles(Tail(tools), written, tools_dir_path, temp,
                                session_id)

\* agent_dir / ".env.development.local" of handle_env_variables, agent_dir
\* being Path("").
EnvFile == <<".", ".env.development.local">>

\* A disk on which the working directory of the server holds an env file
\* that no session has written.
DiskWithEnvFile ==
    [p \in {EnvFile} |-> [content |-> <<>>, by |-> {}]]

\* What a call returns: None, the values of get_state, the report of
\* execute_command, or an exception.
NoneResult == [kind |-> "None"]

StateResult(values) == [kind |-> "state", values |-> values]

Raised(error) == [kind |-> "raised", error |-> error]

\* What subprocess.run does with the command: whether the agent directory
\* exists, whether the call raises, and the exit code.
CommandOutcomes == [dir_exists : BOOLEAN, raises : BOOLEAN, returncode : {0, 1}]

execute_command(values, command, outcome) ==
    IF Get(values, "agent_dir_path", "") = "" THEN NoneResult
    ELSE IF ~outcome.dir_exists THEN NoneResult
    ELSE IF outcome.raises
    THEN [kind |-> "command", command |-> command, success |-> FALSE,
          error |-> "raised"]
    ELSE [kind |-> "command", command |-> command,
          success |-> (outcome.returncode = 0),
          returncode |-> outcome.returncode]

compile_contract(values, outcome) ==
    IF Get(values, "agent_dir_path", "") = "" THEN NoneResult
    ELSE IF ~outcome.dir_exists THEN NoneResult
    ELSE execute_command(values, "bash deply.sh --compile-only", outcome)

build_docker_image(values, outcome) ==
    IF Get(values, "agent_dir_path", "") = "" THEN NoneResult
    ELSE IF ~outcome.dir_exists THEN NoneResult
    ELSE execute_command(values, "bash deply.sh --image", outcome)

handle_compile_contract(values, outcome) == compile_contract(values, outcome)

handle_build_docker_image(values, outcome) == build_docker_image(values, outcome)

handle_deploy_agent(values, outcome) ==
    IF Get(values, "agent_dir_path", "") = "" THEN NoneResult
    ELSE IF ~outcome.dir_exists THEN NoneResult
    ELSE execute_command(values, "bash deply.sh --compile", outcome)

\* Environment variables a caller submits: the account id stands for the
\* block of lines written.
EnvVariables == {"alice.testnet"}

\* The disk after handle_env_variables: the block is appended to the env
\* file when the file exists.
handle_env_variables_disk(d, env_variables, session_id) ==
    IF EnvFile \in DOMAIN d
    THEN DiskWrite(d, EnvFile, Append(d[EnvFile].content, env_variables), session_id)
    ELSE d

\* What handle_env_variables returns.
handle_env_variables(values, d) ==
    IF EnvFile \in DOMAIN d THEN StateResult(values) ELSE NoneResult

\* The coroutines of two requests on one session.
Coroutines == {"c1", "c2"}

\* No request has arrived.
NoCoroutines ==
    [c \in Coroutines |->
        [pc |-> "idle", op |-> "", input |-> <<>>, snapshot |-> NoCheckpoint,
         updated_state |-> EmptyDict]]

\* The event loop is executing no coroutine.
NoOne == ""

-----------------------------------------------------------------------------
(* SessionService (services/session_service.py) *)

\* d without the key k (del d[k]).
DictDel(d, k) == [x \in (DOMAIN d) \ {k} |-> d[x]]

\* user_sessions.get(user_id) when the user has no entry.
NoSession == ""

\* SessionService.__init__
NewSessionService == [user_sessions |-> EmptyDict, session_metadata |-> EmptyDict]

\* create_session(user_id): `now` is datetime.now() and `uuid` the value
\* uuid.uuid4() would return.  Gives the service and the returned id.
create_session_always_new(svc, user_id, now, uuid) ==
    [service |->
        [user_sessions |-> DictSet(svc.user_sessions, user_id, uuid),
         session_metadata |->
             DictSet(svc.session_metadata, uuid,
                     [user_id |-> user_id, created_at |-> now,
                      last_activity |-> now])],
     session_id |-> uuid]

create_session(svc, user_id, now, uuid) ==
    LET existing_session == Get(svc.user_sessions, user_id, NoSession)
    IN IF existing_session # NoSession
          /\ existing_session \in DOMAIN svc.session_metadata
       THEN [service |->
                [svc EXCEPT !.session_metadata[existing_session].last_activity = now],
             session_id |-> existing_session]
       ELSE [service |->
                [user_sessions |-> DictSet(svc.user_sessions, user_id, uuid),
                 session_metadata |->
                     DictSet(svc.session_metadata, uuid,
                             [user_id |-> user_id, created_at |-> now,
                              last_activity |-> now])],
             session_id |-> uuid]

\* create_session reaches uuid.uuid4().
CreatesNewSession(svc, user_id) ==
    LET existing_session == Get(svc.user_sessions, user_id, NoSession)
    IN ~(existing_session # NoSession
         /\ existing_session \in DOMAIN svc.session_metadata)

\* get_session_metadata(session_id): the metadata (None when unknown); the
\* call stamps last_activity.
get_session_metadata(svc, session_id, now) ==
    IF session_id \in DOMAIN svc.session_metadata
    THEN [svc EXCEPT !.session_metadata[session_id].last_activity = now]
    ELSE svc

\* update_activity(session_id)
update_activity(svc, session_id, now) ==
    IF session_id \in DOMAIN svc.session_metadata
    THEN [svc EXCEPT !.session_metadata[session_id].last_activity = now]
    ELSE svc

\* delete_session(session_id): the service and the returned bool.  An empty
\* user_id is falsy, so its mapping is kept.
delete_session(svc, session_id) ==
    IF session_id \notin DOMAIN svc.session_metadata
    THEN [service |-> svc, deleted |-> FALSE]
    ELSE LET user_id == svc.session_metadata[session_id].user_id
             user_sessions ==
                 IF user_id # ""
                    /\ Get(svc.user_sessions, user_id, NoSession) = session_id
                 THEN DictDel(svc.user_sessions, user_id)
                 ELSE svc.user_sessions
         IN [service |->
                [user_sessions |-> user_sessions,
                 session_metadata |-> DictDel(svc.session_metadata, session_id)],
             deleted |-> TRUE]

BoolResult(value) == [kind |-> "bool", value |-> value]

-----------------------------------------------------------------------------
(* The state machine *)

World == [checkpoint |-> checkpoint, temp |-> temp_tools]

\* The session has been started: its thread has a checkpoint with values.
Started == checkpoint.values # EmptyDict

\* An operation returns: its result is committed, and last_call records which
\* operation it was, with what input, and whether the operation before it was
\* the same one.
Commit(w, op, arg) ==
    /\ checkpoint' = w.checkpoint
    /\ temp_tools' = w.temp
    /\ nops' = nops + 1
    /\ last_call' = [op |-> op, arg |-> arg, again |-> last_call.op = op]
    /\ UNCHANGED <<template_files, all_errors, threads, disk, result, coroutines,
                   running,
                   session_service, uuids>>

Init ==
    /\ checkpoint = NoCheckpoint
    /\ temp_tools = <<>>
    /\ nops = 0
    /\ last_call = [op |-> "none", arg |-> <<>>, again |-> FALSE]
    /\ template_files = <<>>
    /\ all_errors = <<>>
    /\ threads = NoThreads
    /\ disk = EmptyDisk
    /\ result = NoneResult
    /\ coroutines = NoCoroutines
    /\ running = NoOne
    /\ session_service = NewSessionService
    /\ uuids = {}

Start ==
    /\ nops < MaxOps
    /\ \E user_id \in Users, listing \in TemplateListings :
          Commit(start_session(World, SessionId, user_id, listing), "start", user_id)

SubmitTools ==
    /\ nops < MaxOps
    /\ Started
    /\ \E tools \in ToolLists :
          Commit(handle_submit_tools(World, tools), "submit_tools", tools)

SubmitCustomTools ==
    /\ nops < MaxOps
    /\ Started
    /\ \E requirements \in Requirements, generated \in GeneratedToolLists :
          Commit(handle_submit_custom_tools(World, requirements, generated),
                 "submit_custom_tools", requirements)

SubmitPrompt ==
    /\ nops < MaxOps
    /\ Started
    /\ \E prompt \in Prompts, content \in LLMContents :
          Commit(handle_submit_prompt(World, prompt, content), "submit_prompt", prompt)

SubmitClarification ==
    /\ nops < MaxOps
    /\ Started
    /\ \E answers \in AnswerLists, content \in LLMContents, logic_code \in LogicCodes :
          Commit(handle_submit_clarification(World, answers, content, logic_code),
                 "submit_clarification", answers)

SubmitToolReview ==
    /\ nops < MaxOps
    /\ Started
    /\ \E changes \in ToolChangeInputs :
          Commit(handle_submit_tool_review(World, changes), "submit_tool_review", changes)

UpdateCode ==
    /\ nops < MaxOps
    /\ Started
    /\ \E file_path \in EditPaths, content \in EditContents :
          Commit(handle_update_code(World, file_path, content), "update_code",
                 <<file_path, content>>)

Finalize ==
    /\ nops < MaxOps
    /\ Started
    /\ Commit(handle_finalize_agent(World), "finalize", <<>>)

Next ==
    \/ Start
    \/ SubmitTools
    \/ SubmitCustomTools
    \/ SubmitPrompt
    \/ SubmitClarification
    \/ SubmitToolReview
    \/ UpdateCode
    \/ Finalize

Spec == Init /\ [][Next]_vars

-----------------------------------------------------------------------------
(* The validator on its own: file maps built one file at a time, each handed
   to validate_template *)

\* Paths of a file map: Python files at the root and in tools/, and a file
\* that is not a Python source.
ValidatorPaths == {<<"logic.py">>, <<"b.py">>, <<"tools", "base.py">>,
                   <<"tools", "alert.py">>, <<"README.md">>}

\* Contents of a file: text without local imports, text that does not parse,
\* text on which the parser fails, text importing the module b, and a tool
\* source importing from .base.
ValidatorContents == {"valid", "broken", "too_deep", "import_b", "tpl_social"}

ValidatorInit ==
    /\ checkpoint = NoCheckpoint
    /\ temp_tools = <<>>
    /\ nops = 0
    /\ last_call = [op |-> "none", arg |-> <<>>, again |-> FALSE]
    /\ template_files = <<>>
    /\ all_errors = validate_template(<<>>)
    /\ threads = NoThreads
    /\ disk = EmptyDisk
    /\ result = NoneResult
    /\ coroutines = NoCoroutines
    /\ running = NoOne
    /\ session_service = NewSessionService
    /\ uuids = {}

\* A caller writes one file into the map and validates the map.
ValidateTemplate ==
    /\ \E file_path \in ValidatorPaths, code \in ValidatorContents :
          /\ ODHas(template_files, file_path) \/ Len(template_files) < MaxFiles
          /\ template_files' = ODPut(template_files, file_path, code)
          /\ all_errors' = validate_template(template_files')
    /\ last_call' = [op |-> "validate_template", arg |-> <<>>, again |-> FALSE]
    /\ UNCHANGED <<checkpoint, temp_tools, nops, threads, disk, result,
                   coroutines, running,
                   session_service, uuids>>

\* A caller validates the map it holds once more, without changing it.
ValidateAgain ==
    /\ all_errors' = validate_template(template_files)
    /\ last_call' = [op |-> "validate_template", arg |-> <<>>, again |-> TRUE]
    /\ UNCHANGED <<checkpoint, temp_tools, nops, template_files, threads, disk,
                   result, coroutines, running,
                   session_service, uuids>>

ValidatorNext == ValidateTemplate \/ ValidateAgain

ValidatorSpec == ValidatorInit /\ [][ValidatorNext]_vars

(* The service with two sessions: the public operations called with either
   session id, started or not, with the files they write and what they
   return *)

\* The world a call on session_id sees.
Thread(session_id) == [checkpoint |-> threads[session_id], temp |-> temp_tools]

\* Inputs of the calls.
ServiceListing ==
    <<[k |-> <<"logic.py">>, v |-> "tpl_logic"],
      [k |-> <<"tools", "base.py">>, v |-> "tpl_base"]>>

ServiceToolLists == {<<[name |-> "crypto_price", code |-> ""]>>,
                     <<[name |-> "Alert", code |-> "valid"]>>}

ServiceLLMContents ==
    {<<Line("Summary:", FALSE, {"summary"}, "none"),
       Line("Monitor the price of BTC", FALSE, {}, "none")>>,
     <<Line("Nothing to ask.", FALSE, {}, "none")>>,
     <<Line("Questions:", FALSE, {"questions"}, "none"),
       Line("Should I go on? Is everything in order", TRUE, {}, "head"),
       Line("to continue?", TRUE, {}, "tail")>>}

\* A call on session_id returns: the checkpoint of the session, the registry,
\* the disk and the returned value are as the call left them.
ServiceCommit(session_id, w, d, r, op) ==
    /\ threads' = [threads EXCEPT ![session_id] = w.checkpoint]
    /\ temp_tools' = w.temp
    /\ disk' = d
    /\ result' = r
    /\ nops' = nops + 1
    /\ last_call' = [op |-> op, arg |-> session_id, again |-> FALSE]
    /\ UNCHANGED <<checkpoint, template_files, all_errors, coroutines, running,
                   session_service, uuids>>

ServiceInit ==
    /\ checkpoint = NoCheckpoint
    /\ temp_tools = <<>>
    /\ nops = 0
    /\ last_call = [op |-> "none", arg |-> "", again |-> FALSE]
    /\ template_files = <<>>
    /\ all_errors = <<>>
    /\ threads = NoThreads
    /\ disk \in {EmptyDisk, DiskWithEnvFile}
    /\ result = NoneResult
    /\ coroutines = NoCoroutines
    /\ running = NoOne
    /\ session_service = NewSessionService
    /\ uuids = {}

ServiceStart ==
    /\ nops < MaxOps
    /\ \E s \in SessionIds :
          LET w == start_session(Thread(s), s, UserOf(s), ServiceListing)
          IN ServiceCommit(s, w,
                 CopyTemplateFiles(ServiceListing, disk, AgentDir(UserOf(s), s), s),
                 StateResult(get_state(w)), "start")

ServiceGetState ==
    /\ nops < MaxOps
    /\ \E s \in SessionIds :
          ServiceCommit(s, Thread(s), disk, StateResult(get_state(Thread(s))),
                        "get_state")

ServiceSubmitTools ==
    /\ nops < MaxOps
    /\ \E s \in SessionIds, tools \in ServiceToolLists :
          LET values == threads[s].values
              w == handle_submit_tools(Thread(s), tools)
          IN IF KeyErrorIn_add_platform_tools(values)
             THEN ServiceCommit(s, w, disk, Raised("KeyError"), "submit_tools")
             ELSE ServiceCommit(s, w,
                      WritePlatformToolFiles(tools, disk, ToolsDirPath(values),
                                             temp_tools, s),
                      StateResult(get_state(w)), "submit_tools")

ServiceSubmitPrompt ==
    /\ nops < MaxOps
    /\ \E s \in SessionIds, content \in ServiceLLMContents :
          LET w == handle_submit_prompt(Thread(s), "watch btc", content)
          IN IF KeyErrorIn_clarify_intent(threads[s].values, content)
             THEN ServiceCommit(s, w, disk, Raised("KeyError"), "submit_prompt")
             ELSE ServiceCommit(s, w, disk, StateResult(get_state(w)),
                                "submit_prompt")

\* Callers edit the code of sessions that have a template.
ServiceUpdateCode ==
    /\ nops < MaxOps
    /\ \E s \in SessionIds :
          /\ "template_code" \in DOMAIN threads[s].values
          /\ LET w == handle_update_code(Thread(s), <<"logic.py">>, "valid")
             IN ServiceCommit(s, w, disk, StateResult(get_state(w)), "update_code")

ServiceEnvVariables ==
    /\ nops < MaxOps
    /\ \E s \in SessionIds, env_variables \in EnvVariables :
          ServiceCommit(s, Thread(s),
                        handle_env_variables_disk(disk, env_variables, s),
                        handle_env_variables(get_state(Thread(s)), disk),
                        "env_variables")

ServiceCompileContract ==
    /\ nops < MaxOps
    /\ \E s \in SessionIds, outcome \in CommandOutcomes :
          ServiceCommit(s, Thread(s), disk,
                        handle_compile_contract(threads[s].values, outcome),
                        "compile_contract")

ServiceBuildDockerImage ==
    /\ nops < MaxOps
    /\ \E s \in SessionIds, outcome \in CommandOutcomes :
          ServiceCommit(s, Thread(s), disk,
                        handle_build_docker_image(threads[s].values, outcome),
                        "build_docker_image")

ServiceDeployAgent ==
    /\ nops < MaxOps
    /\ \E s \in SessionIds, outcome \in CommandOutcomes :
          ServiceCommit(s, Thread(s), disk,
                        handle_deploy_agent(threads[s].values, outcome),
                        "deploy_agent")

ServiceNext ==
    \/ ServiceStart
    \/ ServiceGetState
    \/ ServiceSubmitTools
    \/ ServiceSubmitPrompt
    \/ ServiceUpdateCode
    \/ ServiceEnvVariables
    \/ ServiceCompileContract
    \/ ServiceBuildDockerImage
    \/ ServiceDeployAgent

ServiceSpec == ServiceInit /\ [][ServiceNext]_vars

(* Two requests on one session on the event loop: every handler is a
   coroutine, the loop executes one coroutine at a time and takes another one
   only where the running one awaits something that suspends it *)

\* Requests in flight: a tool submission and a code edit.
Requests ==
    [op : {"submit_tools"}, input : ServiceToolLists]
    \cup [op : {"update_code"},
          input : {<<<<"logic.py">>, "valid">>, <<<<"logic.py">>, "broken">>}]

\* The steps of a handler: "read" (graph.get_state), "run" (the stages),
\* "commit" (graph.update_state), "resume" (resume_workflow up to its
\* astream), "stream" (graph.astream(None)), "done" (returned).
HasResume(op) == op = "update_code"

\* A handler that suspends at an await placed between its stages and its
\* update_state.
SuspendsBefore_commit == {"commit", "stream"}

\* The steps before which a coroutine is suspended: the only await of the
\* handlers that gives the loop away is the astream of resume_workflow
\* (get_state, the stages and update_state are plain calls, and awaiting
\* self.get_state suspends nothing).
SuspendsBefore == {"stream"}

\* The event loop can execute the next step of the coroutine.
CanRun(c) == running \in {NoOne, c}

\* The coroutine has taken a step and is now at pc.
Stepped(c, pc, snapshot, updated_state) ==
    /\ coroutines' = [coroutines EXCEPT ![c] =
                         [@ EXCEPT !.pc = pc, !.snapshot = snapshot,
                                   !.updated_state = updated_state]]
    /\ running' = IF pc \in SuspendsBefore \cup {"done"} THEN NoOne ELSE c
    /\ UNCHANGED <<nops, last_call, template_files, all_errors, threads, disk,
                   result, session_service, uuids>>

\* What the stages of the handler make of the state it read.
RunStages(op, input, w) ==
    IF op = "submit_tools"
    THEN handle_submit_tools(w, input).checkpoint.values
    ELSE handle_update_code_commit(w, input[1], input[2]).checkpoint.values

LoopInit ==
    /\ checkpoint = NoCheckpoint
    /\ temp_tools = <<>>
    /\ nops = 0
    /\ last_call = [op |-> "none", arg |-> <<>>, again |-> FALSE]
    /\ template_files = <<>>
    /\ all_errors = <<>>
    /\ threads = NoThreads
    /\ disk = EmptyDisk
    /\ result = NoneResult
    /\ coroutines = NoCoroutines
    /\ running = NoOne
    /\ session_service = NewSessionService
    /\ uuids = {}

\* The session is started before the requests arrive.
LoopStart ==
    /\ checkpoint = NoCheckpoint
    /\ LET w == start_session(World, SessionId, "u1", ServiceListing)
       IN checkpoint' = w.checkpoint /\ temp_tools' = w.temp
    /\ UNCHANGED <<nops, last_call, template_files, all_errors, threads, disk,
                   result, coroutines, running,
                   session_service, uuids>>

\* A request arrives: its coroutine is scheduled.
LoopRequest ==
    /\ Started
    /\ \E c \in Coroutines, r \in Requests :
          /\ coroutines[c].pc = "idle"
          /\ coroutines' = [coroutines EXCEPT ![c] =
                               [@ EXCEPT !.pc = "read", !.op = r.op,
                                         !.input = r.input]]
    /\ UNCHANGED <<checkpoint, temp_tools, nops, last_call, template_files,
                   all_errors, threads, disk, result, running,
                   session_service, uuids>>

LoopRead ==
    \E c \in Coroutines :
        /\ coroutines[c].pc = "read" /\ CanRun(c)
        /\ Stepped(c, "run", checkpoint, coroutines[c].updated_state)
        /\ UNCHANGED <<checkpoint, temp_tools>>

LoopRunStages ==
    \E c \in Coroutines :
        /\ coroutines[c].pc = "run" /\ CanRun(c)
        /\ Stepped(c, "commit", coroutines[c].snapshot,
                   RunStages(coroutines[c].op, coroutines[c].input,
                             [checkpoint |-> coroutines[c].snapshot,
                              temp |-> temp_tools]))
        /\ UNCHANGED <<checkpoint, temp_tools>>

LoopCommit ==
    \E c \in Coroutines :
        /\ coroutines[c].pc = "commit" /\ CanRun(c)
        /\ checkpoint' = update_state(checkpoint, coroutines[c].updated_state)
        /\ Stepped(c, IF HasResume(coroutines[c].op) THEN "resume" ELSE "done",
                   coroutines[c].snapshot, coroutines[c].updated_state)
        /\ UNCHANGED temp_tools

LoopResume ==
    \E c \in Coroutines :
        /\ coroutines[c].pc = "resume" /\ CanRun(c)
        /\ LET w == resume_workflow_route(World)
           IN checkpoint' = w.checkpoint /\ temp_tools' = w.temp
        /\ Stepped(c, "stream", coroutines[c].snapshot, coroutines[c].updated_state)

LoopStream ==
    \E c \in Coroutines :
        /\ coroutines[c].pc = "stream" /\ CanRun(c)
        /\ LET w == astream_resume(World, GeneratedOnly(<<>>))
           IN checkpoint' = w.checkpoint /\ temp_tools' = w.temp
        /\ Stepped(c, "done", coroutines[c].snapshot, coroutines[c].updated_state)

LoopNext ==
    \/ LoopStart
    \/ LoopRequest
    \/ LoopRead
    \/ LoopRunStages
    \/ LoopCommit
    \/ LoopResume
    \/ LoopStream

LoopSpec == LoopInit /\ [][LoopNext]_vars

-----------------------------------------------------------------------------
(* The SessionService and the /forge/start endpoint: SessionSpec follows
   session_service, the ids uuid4 has given out and the checkpoints of the
   sessions (threads).  datetime.now() is the number of calls made so far. *)

\* user_id of ForgeSessionStartRequestSchema is any str, the empty one too.
SessionUsers == {"u1", "u2", ""}

SessionToolLists == {<<[name |-> "Alert", code |-> "valid"]>>}

SessionCommit(svc, ids, th, r, op, arg) ==
    /\ session_service' = svc
    /\ uuids' = ids
    /\ threads' = th
    /\ result' = r
    /\ nops' = nops + 1
    /\ last_call' = [op |-> op, arg |-> arg, again |-> last_call.op = op]
    /\ UNCHANGED <<checkpoint, temp_tools, template_files, all_errors, disk,
                   coroutines, running>>

SessionInit ==
    /\ checkpoint = NoCheckpoint
    /\ temp_tools = <<>>
    /\ nops = 0
    /\ last_call = [op |-> "none", arg |-> "", again |-> FALSE]
    /\ template_files = <<>>
    /\ all_errors = <<>>
    /\ threads = NoThreads
    /\ disk = EmptyDisk
    /\ result = NoneResult
    /\ coroutines = NoCoroutines
    /\ running = NoOne
    /\ session_service = NewSessionService
    /\ uuids = {}

\* POST /forge/start: create_session, then start_session on the id it gave,
\* then get_state.
start_forge_session(user_id, uuid) ==
    LET created == create_session(session_service, user_id, nops, uuid)
        session_id == created.session_id
        w == start_session(Thread(session_id), session_id, user_id, ServiceListing)
    IN SessionCommit(created.service,
                     IF CreatesNewSession(session_service, user_id)
                     THEN uuids \cup {uuid} ELSE uuids,
                     [threads EXCEPT ![session_id] = w.checkpoint],
                     StateResult(get_state(w)), "start", user_id)

\* uuid is what uuid4 gives if it is called: an id it has not given before.
SessionStart ==
    /\ nops < MaxOps
    /\ \E user_id \in SessionUsers, uuid \in SessionIds :
          /\ CreatesNewSession(session_service, user_id) => uuid \notin uuids
          /\ start_forge_session(user_id, uuid)

SessionGetMetadata ==
    /\ nops < MaxOps
    /\ \E s \in SessionIds :
          SessionCommit(get_session_metadata(session_service, s, nops), uuids,
                        threads, NoneResult, "get_session_metadata", s)

SessionUpdateActivity ==
    /\ nops < MaxOps
    /\ \E s \in SessionIds :
          SessionCommit(update_activity(session_service, s, nops), uuids,
                        threads, NoneResult, "update_activity", s)

SessionDelete ==
    /\ nops < MaxOps
    /\ \E s \in SessionIds :
          LET deleted == delete_session(session_service, s)
          IN SessionCommit(deleted.service, uuids, threads,
                           BoolResult(deleted.deleted), "delete_session", s)

\* The caller of a started session answers its pauses.
SessionSubmitTools ==
    /\ nops < MaxOps
    /\ \E s \in uuids, tools \in SessionToolLists :
          LET w == handle_submit_tools(Thread(s), tools)
          IN SessionCommit(session_service, uuids,
                           [threads EXCEPT ![s] = w.checkpoint],
                           StateResult(get_state(w)), "submit_tools", s)

SessionSubmitPrompt ==
    /\ nops < MaxOps
    /\ \E s \in uuids, content \in ServiceLLMContents :
          LET w == handle_submit_prompt(Thread(s), "watch btc", content)
          IN SessionCommit(session_service, uuids,
                           [threads EXCEPT ![s] = w.checkpoint],
                           StateResult(get_state(w)), "submit_prompt", s)

SessionUpdateCode ==
    /\ nops < MaxOps
    /\ \E s \in uuids :
          LET w == handle_update_code(Thread(s), <<"logic.py">>, "valid")
          IN SessionCommit(session_service, uuids,
                           [threads EXCEPT ![s] = w.checkpoint],
                           StateResult(get_state(w)), "update_code", s)

SessionNext ==
    \/ SessionStart
    \/ SessionGetMetadata
    \/ SessionUpdateActivity
    \/ SessionDelete
    \/ SessionSubmitTools
    \/ SessionSubmitPrompt
    \/ SessionUpdateCode

SessionSpec == SessionInit /\ [][SessionNext]_vars

-----------------------------------------------------------------------------
(* Vocabulary of the claims *)

\* The committed ForgeState of the session.
cv == checkpoint.values

\* The operations of the submit family.
SubmitOps == {"submit_tools", "submit_custom_tools", "submit_prompt",
              "submit_clarification", "submit_tool_review", "update_code"}

\* The pause each submit operation answers.
PauseOf(op) ==
    CASE op = "submit_tools" -> "tools"
      [] op = "submit_custom_tools" -> "custom_tools"
      [] op = "submit_prompt" -> "prompt"
      [] op = "submit_clarification" -> "clarification"
      [] op = "submit_tool_review" -> "tool_review"
      [] op = "update_code" -> "code_review"

\* The session is parked at the pause `stage`.
ParkedAt(values, stage) == values.waiting_for_input /\ values.waiting_stage = stage

IsFinalized(values) == values.current_step = "finalized"

-----------------------------------------------------------------------------
(* C1 *)

\* C1 (pause invariant): in the state committed by any submit operation on a
\* started session, either the session waits for input at one of the pauses,
\* or it is finalized.
C1_PauseInvariant ==
    last_call.op \in SubmitOps =>
        \/ cv.waiting_for_input /\ cv.waiting_stage \in UpdateNodeStages
        \/ IsFinalized(cv)

-----------------------------------------------------------------------------
(* C2 *)

\* C2 (out-of-order rejection): a submit for pause P made while the session is
\* not parked at P leaves the committed state unchanged.
C2_OutOfOrderRejected ==
    [][(/\ last_call'.op \in SubmitOps
        /\ Started
        /\ ~ParkedAt(cv, PauseOf(last_call'.op)))
       => checkpoint'.values = checkpoint.values]_vars

-----------------------------------------------------------------------------
(* C3 *)

\* C3 (validation gate): after the chain of submit_clarification has run the
\* validate stage, code_errors is the validator's result for the workspace,
\* the session is parked at code_review exactly when that list is non-empty
\* and is finalized exactly when it is empty; a finalized session with
\* non-empty code_errors is always the result of an explicit finalize call.
C3_ValidationGate ==
    /\ last_call.op = "submit_clarification" =>
          /\ cv.code_errors = validate_template(cv.template_code)
          /\ (cv.code_errors # <<>>) <=> ParkedAt(cv, "code_review")
          /\ (cv.code_errors = <<>>) <=> IsFinalized(cv)
    /\ (Started /\ IsFinalized(cv) /\ cv.code_errors # <<>>) => last_call.op = "finalize"

\* The chain has validated a workspace with errors and parked at code_review.
C3_Witness ==
    /\ last_call.op = "submit_clarification"
    /\ cv.code_errors # <<>>
    /\ ParkedAt(cv, "code_review")

-----------------------------------------------------------------------------
(* C4 *)

\* C4 (code-review loop): a code edit (path, content) submitted while the
\* session is parked at code_review leaves template_code[path] = content,
\* code_errors equal to the validator's result for the edited workspace, and
\* the session parked at code_review again when that result is non-empty.
C4_CodeReviewLoop ==
    [][(/\ last_call'.op = "update_code"
        /\ ParkedAt(cv, "code_review"))
       => LET after == checkpoint'.values
              file_path == last_call'.arg[1]
              content == last_call'.arg[2]
          IN /\ ODHas(after.template_code, file_path)
             /\ ODGet(after.template_code, file_path) = content
             /\ after.code_errors = validate_template(after.template_code)
             /\ after.code_errors # <<>> => ParkedAt(after, "code_review")]_vars

-----------------------------------------------------------------------------
(* C5 *)

\* C5 (code-review loop convergence): when the session is parked at
\* code_review with at least one error and a code edit makes the validator
\* report no error for template_code, that submit ends with the session
\* finalized.
C5_LoopConverges ==
    [][(/\ last_call'.op = "update_code"
        /\ ParkedAt(cv, "code_review")
        /\ cv.code_errors # <<>>
        /\ validate_template(checkpoint'.values.template_code) = <<>>)
       => /\ IsFinalized(checkpoint'.values)
          /\ ~checkpoint'.values.waiting_for_input]_vars

-----------------------------------------------------------------------------
(* C6 *)

\* C6 (idempotent finalize): a finalize call that directly follows a finalize
\* call commits the state the first one committed (finalized, not waiting,
\* same template_code) and adds nothing to the registry.
C6_IdempotentFinalize ==
    [][(last_call.op = "finalize" /\ last_call'.op = "finalize")
       => /\ checkpoint' = checkpoint
          /\ temp_tools' = temp_tools
          /\ IsFinalized(checkpoint'.values)
          /\ ~checkpoint'.values.waiting_for_input]_vars

\* finalize has been called twice in a row.
C6_Witness ==
    /\ last_call.op = "finalize"
    /\ last_call.again
    /\ IsFinalized(cv)

-----------------------------------------------------------------------------
(* C7 *)

\* The finalize stage ran in the last operation: by the explicit finalize
\* call, or at the end of the chain of submit_clarification.
FinalizeStageRan ==
    \/ last_call.op = "finalize"
    \/ last_call.op = "submit_clarification" /\ IsFinalized(cv)

\* C7 (finalized flag): whenever the finalize stage has run, by either route,
\* the committed state has its finalize flag true and waiting_for_input false.
C7_FinalizedFlag ==
    FinalizeStageRan => cv.finalize = TRUE /\ cv.waiting_for_input = FALSE

-----------------------------------------------------------------------------
(* C8 *)

\* C8 (start stops at the first pause): the state committed by start holds the
\* template files and nothing else in template_code, no selected tools, and
\* waits for input at pause tools; no later stage has left a trace and no
\* node is pending.
C8_StartStopsAtTools ==
    last_call.op = "start" =>
        /\ cv.template_code \in TemplateListings
        /\ cv.selected_tools = <<>>
        /\ cv.waiting_for_input = TRUE
        /\ cv.waiting_stage = "tools"
        /\ cv.current_step = "waiting_for_tools"
        /\ cv.generated_tools = <<>>
        /\ cv.user_message = ""
        /\ cv.user_clarifications = <<>>
        /\ cv.logic_code = ""
        /\ cv.code_errors = <<>>
        /\ cv.finalize = FALSE
        /\ checkpoint.next = <<>>

\* start has run on a session id that other operations had already advanced.
C8_Witness ==
    /\ last_call.op = "start"
    /\ nops >= 3
    /\ ParkedAt(cv, "tools")

-----------------------------------------------------------------------------
(* C9 *)

\* Some session that start can create takes the custom_tools branch.
CustomBranchStartable ==
    \E user_id \in Users, listing \in TemplateListings :
        _should_wait_for_custom_tools(
            start_session(World, SessionId, user_id, listing).checkpoint.values) = "yes"

\* C9 (custom-tools branch): after submit_tools the session waits at
\* custom_tools when agent_config asks for custom tools and at prompt
\* otherwise, and start can create sessions for either branch.
C9_CustomToolsBranch ==
    last_call.op = "submit_tools" =>
        /\ cv.waiting_for_input
        /\ cv.waiting_stage =
              (IF Get(cv.agent_config, "wants_custom_tools", FALSE)
               THEN "custom_tools" ELSE "prompt")
        /\ CustomBranchStartable

-----------------------------------------------------------------------------
(* C10 *)

\* C10 (tool materialization): after submit_tools every submitted tool has its
\* file tools/<lower-cased name>.py in template_code, holding the tool's
\* inline code when it has one and the registry's source otherwise.
C10_EveryToolMaterialized ==
    last_call.op = "submit_tools" =>
        \A i \in 1..Len(last_call.arg) :
            LET tool == last_call.arg[i]
                key == ToolKey(tool.name)
            IN /\ ODHas(cv.template_code, key)
               /\ ODGet(cv.template_code, key) =
                     (IF tool.code # "" THEN tool.code
                      ELSE get_tool_code(temp_tools, tool.name))

-----------------------------------------------------------------------------
(* C11 *)

\* What the claim promises of a committed state after custom-tool
\* requirements were submitted and the oracle returned `generated`.
CustomToolsOutcome(values, generated) ==
    /\ values.generated_tools = generated
    /\ \A i \in 1..Len(generated) :
          generated[i].code # "" =>
              /\ ODHas(values.template_code, ToolKey(generated[i].name))
              /\ ODGet(values.template_code, ToolKey(generated[i].name)) = generated[i].code
    /\ ParkedAt(values, "prompt")

\* The session as the wait_for_custom_tools stage leaves it: parked at
\* custom_tools.
ParkedAtCustomTools ==
    Committed(World, update_state(checkpoint, _wait_for_custom_tools(cv)))

\* C11 (custom tools): submitting non-empty custom-tool requirements to a
\* session parked at custom_tools stores the generated tools in
\* generated_tools, puts the source of each generated tool with code under
\* tools/<lower-cased name>.py and parks the session at prompt; the same holds
\* of the state every such submit commits.
C11_CustomToolsSubmit ==
    /\ (Started /\ last_call.op = "submit_tools") =>
          \A requirements \in Requirements \ {""}, generated \in GeneratedToolLists :
              CustomToolsOutcome(
                  handle_submit_custom_tools(ParkedAtCustomTools, requirements,
                                             generated).checkpoint.values,
                  generated)
    /\ (last_call.op = "submit_custom_tools" /\ last_call.arg # "") =>
          \E generated \in GeneratedToolLists : CustomToolsOutcome(cv, generated)

-----------------------------------------------------------------------------
(* C12 *)

\* C12 (prompt to clarification): submit_prompt(text) commits user_message =
\* text and a list of {question, answer} pairs whose answers are all empty,
\* parks the session at clarification, and leaves logic_code, code_errors and
\* template_code as they were: neither logic generation nor validation ran.
C12_PromptToClarification ==
    [][last_call'.op = "submit_prompt"
       => LET after == checkpoint'.values
          IN /\ after.user_message = last_call'.arg
             /\ Len(after.user_clarifications) >= 1
             /\ \A i \in 1..Len(after.user_clarifications) :
                   /\ DOMAIN after.user_clarifications[i] = {"question", "answer"}
                   /\ after.user_clarifications[i].answer = ""
             /\ ParkedAt(after, "clarification")
             /\ after.logic_code = cv.logic_code
             /\ after.code_errors = cv.code_errors
             /\ after.template_code = cv.template_code]_vars

\* A prompt has been submitted before any logic was generated, and the
\* clarification step produced several questions.
C12_Witness ==
    /\ last_call.op = "submit_prompt"
    /\ Len(cv.user_clarifications) >= 2
    /\ cv.logic_code = ""
    /\ ParkedAt(cv, "clarification")

-----------------------------------------------------------------------------
(* C13 *)

\* C13 (confirmation question): whatever the oracle answered, the last
\* element of the question list that submit_prompt commits is the literal
\* confirmation question.
C13_ConfirmationLast ==
    last_call.op = "submit_prompt" =>
        /\ Len(cv.user_clarifications) >= 1
        /\ cv.user_clarifications[Len(cv.user_clarifications)].question = Confirmation

-----------------------------------------------------------------------------
(* C14 *)

\* C14 (tool review never pauses): no reachable state is parked at
\* tool_review; submit_clarification records the answers and, in the same
\* call, reviews the tools (leaving no change unapplied), generates the logic
\* and validates, ending parked at code_review or finalized.
C14_ToolReviewNeverPauses ==
    /\ Started => ~ParkedAt(cv, "tool_review")
    /\ last_call.op = "submit_clarification" =>
          /\ cv.user_clarifications = last_call.arg
          /\ cv.tool_changes.reason = "Tool review completed"
          /\ _has_tool_changes(cv) = "no"
          /\ ODGet(cv.template_code, <<"logic.py">>) = cv.logic_code
          /\ cv.code_errors = validate_template(cv.template_code)
          /\ ParkedAt(cv, "code_review") \/ IsFinalized(cv)

\* submit_clarification with answers has run the review, generated logic and
\* ended at code_review.
C14_Witness ==
    /\ last_call.op = "submit_clarification"
    /\ last_call.arg # <<>>
    /\ cv.tool_changes.reason = "Tool review completed"
    /\ cv.logic_code # ""
    /\ ParkedAt(cv, "code_review")

-----------------------------------------------------------------------------
(* C15 *)

\* The tool change {add: ["crypto_price"], remove: []}; crypto_price is the
\* tool the registry has.
AddCryptoPrice == [add |-> <<"crypto_price">>, remove |-> <<>>]

\* How many records of a tool list carry the name.
CountNamed(tools, name) == Cardinality({i \in 1..Len(tools) : tools[i].name = name})

\* C15 (tool add idempotence): after the tool change {add: [X], remove: []}
\* has been submitted twice in a row, selected_tools holds exactly one tool
\* named X and template_code holds the workspace file of X.
C15_ToolAddIdempotent ==
    [][(/\ last_call.op = "submit_tool_review"
        /\ last_call.arg = AddCryptoPrice
        /\ last_call'.op = "submit_tool_review"
        /\ last_call'.arg = AddCryptoPrice)
       => /\ CountNamed(checkpoint'.values.selected_tools, "crypto_price") = 1
          /\ ODHas(checkpoint'.values.template_code, ToolKey("crypto_price"))]_vars

-----------------------------------------------------------------------------
(* C16 *)

\* Tool names a change can ask to remove.
RemoveNames == {"ghost", "crypto_price", "Alert", "alert"}

\* The tool is in neither selected_tools nor template_code.
ToolAbsent(values, name) ==
    /\ CountNamed(values.selected_tools, name) = 0
    /\ ~ODHas(values.template_code, ToolKey(name))

\* C16 (removing an absent tool): for a tool that is in neither
\* selected_tools nor template_code, applying the change that removes it
\* (the apply stage run on the committed state, and the submit_tool_review
\* operation) leaves selected_tools and template_code exactly as they were.
C16_RemoveAbsentNoOp ==
    Started =>
        \A name \in RemoveNames :
            ToolAbsent(cv, name) =>
                LET change == [add |-> <<>>, remove |-> <<name>>]
                    applied == _apply_tool_changes([cv EXCEPT !.tool_changes = change])
                    submitted == handle_submit_tool_review(World, change).checkpoint.values
                IN /\ applied.selected_tools = cv.selected_tools
                   /\ applied.template_code = cv.template_code
                   /\ submitted.selected_tools = cv.selected_tools
                   /\ submitted.template_code = cv.template_code

\* The removal of the absent tool ghost has been submitted to a session that
\* has tools selected.
C16_Witness ==
    /\ last_call.op = "submit_tool_review"
    /\ last_call.arg.remove = <<"ghost">>
    /\ ToolAbsent(cv, "ghost")
    /\ cv.selected_tools # <<>>
    /\ cv.tool_changes = last_call.arg

-----------------------------------------------------------------------------
(* C17 *)

\* C17 (tool-name uniqueness): in every reachable state no two records of
\* selected_tools + generated_tools carry the same name, and no two of them
\* map to the same workspace file.
C17_ToolNamesUnique ==
    Started =>
        LET all_tools == cv.selected_tools \o cv.generated_tools
        IN \A i, j \in 1..Len(all_tools) :
              i # j => /\ all_tools[i].name # all_tools[j].name
                       /\ ToolKey(all_tools[i].name) # ToolKey(all_tools[j].name)

-----------------------------------------------------------------------------
(* C18 *)

\* The records of a tool list whose name is `name` up to letter case.
CountNamedAnyCase(tools, name) ==
    Cardinality({i \in 1..Len(tools) : Lower(tools[i].name) = Lower(name)})

\* C18 (case-normalized tool names): the records of selected_tools and
\* generated_tools carry lower-cased names, and removing a tool by a name of
\* any letter case removes its record and its file together.
C18_NamesLowerCased ==
    Started =>
        /\ \A i \in 1..Len(cv.selected_tools) :
              cv.selected_tools[i].name = Lower(cv.selected_tools[i].name)
        /\ \A i \in 1..Len(cv.generated_tools) :
              cv.generated_tools[i].name = Lower(cv.generated_tools[i].name)
        /\ \A name \in RemoveNames :
              LET change == [add |-> <<>>, remove |-> <<name>>]
                  applied == _apply_tool_changes([cv EXCEPT !.tool_changes = change])
              IN /\ CountNamedAnyCase(applied.selected_tools, name) = 0
                 /\ ~ODHas(applied.template_code, ToolKey(name))

-----------------------------------------------------------------------------
(* C19 *)

\* The entries of a file map that are Python sources.
SourcesOnly(files) ==
    LET IsSource(e) == EndsWithPy(e.k) IN SelectSeq(files, IsSource)

\* C19 (empty map, non-source files): the empty map validates to the empty
\* list; a file that is not a Python source gets no error, and the errors of
\* a map are those of the map without its non-source files.
C19_NonSourceSkipped ==
    /\ validate_template(<<>>) = <<>>
    /\ template_files = <<>> => all_errors = <<>>
    /\ \A i \in 1..Len(all_errors) : EndsWithPy(all_errors[i].file_path)
    /\ all_errors = validate_template(SourcesOnly(template_files))

\* A map has been validated that holds a non-source file whose text does not
\* parse next to a Python file with errors.
C19_Witness ==
    /\ \E i \in 1..Len(template_files) :
          ~EndsWithPy(template_files[i].k) /\ template_files[i].v = "broken"
    /\ all_errors # <<>>

-----------------------------------------------------------------------------
(* C20 *)

\* The errors of a list that are about the file, and those that are not.
ErrorsOf(errors, file_path) ==
    LET About(e) == e.file_path = file_path IN SelectSeq(errors, About)

ErrorsNotOf(errors, file_path) ==
    LET NotAbout(e) == e.file_path # file_path IN SelectSeq(errors, NotAbout)

\* C20 (per-file short-circuit): a Python file that does not parse gets its
\* syntax error and nothing else, and the errors of every other file are the
\* ones reported when the broken file is replaced by text that parses.
C20_SyntaxShortCircuit ==
    \A i \in 1..Len(template_files) :
        LET file_path == template_files[i].k
            code == template_files[i].v
        IN (EndsWithPy(file_path) /\ ~Parse(code).ok) =>
              /\ ErrorsOf(all_errors, file_path) = _validate_syntax(file_path, code)
              /\ Len(ErrorsOf(all_errors, file_path)) = 1
              /\ ErrorsOf(all_errors, file_path)[1].error_type = "syntax"
              /\ ErrorsNotOf(all_errors, file_path) =
                    ErrorsNotOf(validate_template(ODPut(template_files, file_path, "valid")),
                                file_path)

\* A map has been validated in which one Python file does not parse and
\* another one has an import error.
C20_Witness ==
    /\ \E i \in 1..Len(all_errors) : all_errors[i].error_type = "syntax"
    /\ \E i \in 1..Len(all_errors) : all_errors[i].error_type = "import"

-----------------------------------------------------------------------------
(* C21 *)

-----------------------------------------------------------------------------
(* C22 *)

\* The import statements of a text that name a module of the template, not a
\* library.
LocalImports(code) ==
    LET IsLocal(node) == node.module # <<"typing">>
    IN SelectSeq(Parse(code).imports, IsLocal)

\* The path of the file an import statement of file_path refers to: the
\* module next to the importing file for "from .m import x" (one directory
\* up per further dot), the module at the root of the template for
\* "import m".
ImportTarget(file_path, node) ==
    IF node.level = 0
    THEN <<JoinDots(node.module) \o ".py">>
    ELSE SubSeq(file_path, 1, Len(file_path) - node.level)
         \o <<JoinDots(node.module) \o ".py">>

\* The import errors of a list that are about the file.
ImportErrorsOf(errors, file_path) ==
    LET IsImportError(e) == e.file_path = file_path /\ e.error_type = "import"
    IN SelectSeq(errors, IsImportError)

\* C22 (import-resolution round trip): a file that imports a module of the
\* template whose file is absent gets exactly one import error; once a file
\* that parses is present at the path the import refers to, the file gets no
\* import error.
C22_ImportRoundTrip ==
    \A i \in 1..Len(template_files) :
        LET a == template_files[i].k
            code == template_files[i].v
        IN (EndsWithPy(a) /\ Parse(code).ok) =>
              \A n \in 1..Len(LocalImports(code)) :
                  LET b == ImportTarget(a, LocalImports(code)[n])
                  IN /\ ~ODHas(template_files, b) =>
                           Len(ImportErrorsOf(all_errors, a)) = 1
                     /\ (ODHas(template_files, b)
                         /\ Parse(ODGet(template_files, b)).ok) =>
                           ImportErrorsOf(all_errors, a) = <<>>

-----------------------------------------------------------------------------
(* C23 *)

\* The paths of the file maps in the order of their strings.
PathsInOrder == <<<<"README.md">>, <<"b.py">>, <<"logic.py">>,
                  <<"tools", "alert.py">>, <<"tools", "base.py">>>>

PathRank(file_path) ==
    CHOOSE i \in 1..Len(PathsInOrder) : PathsInOrder[i] = file_path

\* C23 (order of the errors): the errors are listed by file path and, within
\* one file, by the line of the offending statement, whatever the order in
\* which the files were put into the map.
C23_OrderedByPath ==
    \A i, j \in 1..Len(all_errors) :
        i < j =>
          /\ PathRank(all_errors[i].file_path) <= PathRank(all_errors[j].file_path)
          /\ all_errors[i].file_path = all_errors[j].file_path =>
                all_errors[i].line_number <= all_errors[j].line_number

-----------------------------------------------------------------------------
(* C24 *)

\* C24 (the validator does not raise): a Python file on which the parser
\* fails with an unexpected exception gets exactly one error, the list is
\* returned all the same, and it holds for every other file the errors
\* reported when the failing file is replaced by text that parses.
C24_CrashReportedOnce ==
    \A i \in 1..Len(template_files) :
        LET file_path == template_files[i].k
            code == template_files[i].v
        IN (EndsWithPy(file_path) /\ Parse(code).crash) =>
              /\ Len(ErrorsOf(all_errors, file_path)) = 1
              /\ ErrorsOf(all_errors, file_path)[1].line_number = NoLine
              /\ ErrorsNotOf(all_errors, file_path) =
                    ErrorsNotOf(validate_template(ODPut(template_files, file_path, "valid")),
                                file_path)

\* A map has been validated in which the parser fails on the first file and
\* a later file has an import error.
C24_Witness ==
    /\ Len(template_files) >= 2
    /\ EndsWithPy(template_files[1].k)
    /\ Parse(template_files[1].v).crash
    /\ \E i \in 1..Len(all_errors) :
          /\ all_errors[i].error_type = "import"
          /\ all_errors[i].file_path # template_files[1].k

-----------------------------------------------------------------------------
(* C25 *)

\* The tool registry fails during _add_platform_tools: a submitted tool that
\* carries no code is asked of the registry, and get_tool_code raises.
RegistryFails(tools, temp) ==
    \E i \in 1..Len(tools) :
        /\ tools[i].code = ""
        /\ get_tool_code(temp, tools[i].name) = ToolNotFound

\* C25 (atomic stage failure): a submit during whose chain of stages a
\* collaborator fails leaves the committed state exactly as it was before
\* the call.
C25_AtomicStageFailure ==
    [][(/\ nops' = nops + 1
        /\ last_call'.op = "submit_tools"
        /\ RegistryFails(last_call'.arg, temp_tools))
       => checkpoint'.values = checkpoint.values]_vars

-----------------------------------------------------------------------------
(* C27 *)

\* The path lies in the workspace directory of the session.
InWorkspace(path, session_id) ==
    LET agent_dir == AgentDir(UserOf(session_id), session_id)
    IN /\ Len(path) > Len(agent_dir)
       /\ SubSeq(path, 1, Len(agent_dir)) = agent_dir

\* C27 (session isolation): a call on session A leaves the committed state
\* of every other session B as it was and writes no file into B's workspace
\* directory, and no file on disk has been written by calls on two
\* different sessions.
C27_SessionIsolation ==
    [][nops' = nops + 1 =>
          LET a == last_call'.arg
          IN /\ \A b \in SessionIds \ {a} :
                    /\ threads'[b] = threads[b]
                    /\ \A p \in DOMAIN disk' :
                          InWorkspace(p, b) => (p \in DOMAIN disk /\ disk'[p] = disk[p])
             /\ \A p \in DOMAIN disk' : Cardinality(disk'[p].by) <= 1]_vars

-----------------------------------------------------------------------------
(* C28 *)

\* The files under the workspace directory of the session, by the path
\* relative to it.
WorkspaceFiles(d, session_id) ==
    LET n == Len(AgentDir(UserOf(session_id), session_id))
    IN {<<SubSeq(p, n + 1, Len(p)), d[p].content>> :
            p \in {q \in DOMAIN d : InWorkspace(q, session_id)}}

\* C28 (mirror consistency): the files under the workspace directory of a
\* session are those of its template_code, path by path with the same
\* content.
C28_MirrorConsistency ==
    \A s \in SessionIds :
        "template_code" \in DOMAIN threads[s].values =>
            LET template_code == threads[s].values.template_code
            IN WorkspaceFiles(disk, s) =
                  {<<template_code[i].k, template_code[i].v>> :
                       i \in 1..Len(template_code)}

-----------------------------------------------------------------------------
(* C29 *)

\* start_session has run for the session.
SessionStarted(session_id) == "session_id" \in DOMAIN threads[session_id].values

\* The caller is told that there is no such session: the handler returns
\* None or the empty dict.
NotFound(r) == r = NoneResult \/ r = StateResult(EmptyDict)

\* C29 (unknown and started sessions): get_state and the submits on an id
\* that has no state report not-found and create no state; get_state on a
\* started session returns its committed state; no call takes the state of a
\* session away.
C29_UnknownSessionNotFound ==
    [][nops' = nops + 1 =>
          LET a == last_call'.arg
          IN /\ (threads[a] = NoCheckpoint
                 /\ last_call'.op \in {"get_state", "submit_tools", "submit_prompt"})
                => (NotFound(result') /\ threads' = threads)
             /\ (SessionStarted(a) /\ last_call'.op = "get_state")
                => result' = StateResult(threads[a].values)
             /\ \A s \in SessionIds :
                    threads[s].values # EmptyDict => threads'[s].values # EmptyDict]_vars

-----------------------------------------------------------------------------
(* C30 *)

NonPipelineOps == {"env_variables", "compile_contract", "build_docker_image",
                   "deploy_agent"}

CommandOps == {"compile_contract", "build_docker_image", "deploy_agent"}

\* C30 (non-pipeline operations): submitting environment variables,
\* compiling, building and deploying leave the committed state of every
\* session as it was, and on a started session a command returns a report
\* with the exit code of the command and success exactly when that code is 0.
C30_CommandsReportExitCode ==
    [][(nops' = nops + 1 /\ last_call'.op \in NonPipelineOps) =>
          /\ threads' = threads
          /\ (last_call'.op \in CommandOps /\ SessionStarted(last_call'.arg)) =>
                /\ result'.kind = "command"
                /\ "returncode" \in DOMAIN result'
                /\ result'.success = (result'.returncode = 0)]_vars

-----------------------------------------------------------------------------
(* C26 *)

\* The handler of the request, called on its own.
Serve(request, w) ==
    IF request.op = "submit_tools"
    THEN handle_submit_tools(w, request.input)
    ELSE handle_update_code(w, request.input[1], request.input[2])

\* The checkpoints the two requests leave when one is served after the
\* other on the session as start_session left it.
SerialOutcomes(first, second) ==
    LET w == start_session([checkpoint |-> NoCheckpoint, temp |-> <<>>],
                           SessionId, "u1", ServiceListing)
    IN {Serve(second, Serve(first, w)).checkpoint,
        Serve(first, Serve(second, w)).checkpoint}

\* C26 (single writer per session): of two requests in flight on a session
\* at most one is between reading the state and committing it, every commit
\* is of a state computed from the checkpoint that is current when it is
\* committed, and when both requests have returned the checkpoint is the one
\* that serving them one after the other leaves.
C26_SingleWriter ==
    [][/\ Cardinality({c \in Coroutines :
                          coroutines'[c].pc \in {"run", "commit", "resume"}}) <= 1
       /\ \A c \in Coroutines :
             (coroutines[c].pc = "commit" /\ coroutines'[c].pc # "commit")
                => coroutines[c].snapshot = checkpoint
       /\ (\A c \in Coroutines : coroutines'[c].pc = "done")
             => checkpoint' \in SerialOutcomes(coroutines'["c1"],
                                               coroutines'["c2"])]_vars

\* A request has been served from its read to its return while the other
\* one, having committed, was suspended in its astream, and it read the
\* state the other one had committed.
C26_Witness ==
    \E c, d \in Coroutines :
        /\ coroutines[c].pc = "stream"
        /\ coroutines[d].pc = "done"
        /\ coroutines[d].snapshot.values = coroutines[c].updated_state
        /\ coroutines[d].snapshot.values # coroutines[c].snapshot.values

-----------------------------------------------------------------------------
(* C31 *)

\* C31 (parked flag and pause name agree): in every committed state of a
\* started session, waiting_for_input true implies waiting_stage is one of
\* the pause names, and waiting_for_input false implies waiting_stage is
\* empty; in particular after a finalize issued while the session is parked.
C31_ParkedIffPauseName ==
    Started =>
        /\ cv.waiting_for_input => cv.waiting_stage \in UpdateNodeStages
        /\ ~cv.waiting_for_input => cv.waiting_stage = ""

\* The first half alone: a session that waits for input names a pause.
C31_WaitingNamesPause ==
    (Started /\ cv.waiting_for_input) => cv.waiting_stage \in UpdateNodeStages

-----------------------------------------------------------------------------
(* C32 *)

\* C32 (an active session is reused): create_session for a user whose mapped
\* session is in session_metadata returns that session id and adds no
\* session_metadata entry; a new id is generated only when the user has no
\* mapping or the mapped session is no longer in session_metadata.
C32_ActiveSessionReused ==
    [][last_call'.op = "start" =>
        LET user_id == last_call'.arg
            existing == Get(session_service.user_sessions, user_id, NoSession)
            active == /\ user_id \in DOMAIN session_service.user_sessions
                      /\ existing \in DOMAIN session_service.session_metadata
            returned == result'.values.session_id
        IN /\ active =>
                /\ returned = existing
                /\ DOMAIN session_service'.session_metadata
                       = DOMAIN session_service.session_metadata
                /\ uuids' = uuids
           /\ (uuids' # uuids) => ~active
           /\ ~active => returned \in uuids' \ uuids]_vars

\* A user with an active session has called start again.
C32_Witness ==
    /\ last_call.op = "start"
    /\ last_call.again
    /\ Cardinality(uuids) = 1
    /\ DOMAIN session_service.session_metadata = uuids

-----------------------------------------------------------------------------
(* C35 *)

\* C35 (SessionService consistency): after any sequence of create_session,
\* get_session_metadata, update_activity and delete_session calls, every
\* user in user_sessions maps to a session id that is in session_metadata
\* with that user as its user_id, and no two session_metadata entries have
\* the same user_id; delete_session on an unknown id returns false and
\* changes nothing, and on a known id removes the metadata entry and the
\* user's mapping.
C35_MappingsConsistent ==
    LET user_sessions == session_service.user_sessions
        session_metadata == session_service.session_metadata
    IN /\ \A u \in DOMAIN user_sessions :
             /\ user_sessions[u] \in DOMAIN session_metadata
             /\ session_metadata[user_sessions[u]].user_id = u
       /\ \A s, t \in DOMAIN session_metadata :
             session_metadata[s].user_id = session_metadata[t].user_id => s = t

\* The effect of delete_session, as the claim states it.
C35_DeleteEffect ==
    [][last_call'.op = "delete_session" =>
        LET s == last_call'.arg
            known == s \in DOMAIN session_service.session_metadata
        IN /\ ~known => /\ result' = BoolResult(FALSE)
                        /\ session_service' = session_service
           /\ known =>
                /\ result' = BoolResult(TRUE)
                /\ s \notin DOMAIN session_service'.session_metadata
                /\ session_service.session_metadata[s].user_id
                       \notin DOMAIN session_service'.user_sessions]_vars

\* The part that holds: no two sessions of session_metadata have one user.
C35_OneSessionPerUser ==
    \A s, t \in DOMAIN session_service.session_metadata :
        session_service.session_metadata[s].user_id
            = session_service.session_metadata[t].user_id => s = t

\* The part that holds: the mapping of every user with a non-empty user_id
\* is consistent.
C35_NamedUsersConsistent ==
    \A u \in (DOMAIN session_service.user_sessions) \ {""} :
        /\ session_service.user_sessions[u] \in DOMAIN session_service.session_metadata
        /\ session_service.session_metadata[session_service.user_sessions[u]].user_id = u

-----------------------------------------------------------------------------
(* C36 *)

\* C36 (start again keeps the progress): when /forge/start is called for a
\* user whose active session create_session returns, the committed
\* selected_tools, user_message, template_code and current stage of that
\* session are the same after the call as before it.
C36_RestartKeepsProgress ==
    [][(/\ last_call'.op = "start"
        /\ ~CreatesNewSession(session_service, last_call'.arg))
       => LET s == session_service.user_sessions[last_call'.arg]
              before == threads[s].values
              after == threads'[s].values
          IN /\ after.selected_tools = before.selected_tools
             /\ after.user_message = before.user_message
             /\ after.template_code = before.template_code
             /\ after.current_step = before.current_step
             /\ after.waiting_stage = before.waiting_stage]_vars

-----------------------------------------------------------------------------
(* C33 *)

\* C33 (finalize is terminal): once the session is finalized, no submit
\* operation moves it out of the finalized state: current_step stays
\* 'finalized' and waiting_for_input stays false.
C33_FinalizeTerminal ==
    [][(/\ Started
        /\ IsFinalized(cv)
        /\ last_call'.op \in SubmitOps)
       => /\ IsFinalized(checkpoint'.values)
          /\ ~checkpoint'.values.waiting_for_input]_vars

-----------------------------------------------------------------------------
(* C34 *)

C34_ReadOnlyCalls ==
    [][last_call'.op \in {"get_state", "env_variables", "compile_contract",
                          "build_docker_image", "deploy_agent"}
       => threads' = threads]_vars

-----------------------------------------------------------------------------
(* C37 *)

\* The tool files of a workspace: its keys tools/<x>.py other than
\* tools/base.py.
ToolFilesOf(template_code) ==
    {k \in ODKeys(template_code) :
        StartsWithTools(k) /\ EndsWithPy(k) /\ k # <<"tools", "base.py">>}

\* The files that the tools of the session should have.
FilesOfTools(values) ==
    {ToolKey(t.name) : t \in Elems(values.selected_tools \o values.generated_tools)}

\* C37 (tool/workspace consistency): in every committed state reached through
\* the public operations, the tool files in template_code are exactly the
\* files tools/<lower-cased name>.py of the tools in selected_tools +
\* generated_tools.
C37_ToolFilesMatchTools ==
    Started => ToolFilesOf(cv.template_code) = FilesOfTools(cv)

\* After a selection has been replaced by the empty selection, no tool file
\* of the earlier selection remains.
C37_ReplacedSelectionLeavesNoFile ==
    (/\ last_call.op = "submit_tools"
     /\ last_call.again
     /\ last_call.arg = <<>>)
    => ~ODHas(cv.template_code, ToolKey("Alert"))

\* A tool whose registry lookup fails is not kept in selected_tools without
\* a file.
C37_FailedLookupNotKept ==
    last_call.op = "submit_tools" =>
        \A t \in Elems(cv.selected_tools) : ODHas(cv.template_code, ToolKey(t.name))

-----------------------------------------------------------------------------
(* C38 *)

\* The "from ... import" statements of a text that are relative and name a
\* module.
RelativeImports(code) ==
    LET IsRelative(node) ==
            node.kind = "ImportFrom" /\ node.level > 0 /\ node.module # <<>>
    IN SelectSeq(Parse(code).imports, IsRelative)

\* C38 (relative-import resolution): a file that parses and holds a relative
\* import of level n of the module m gets an import error if and only if
\* the file m.py in the directory n-1 levels above the file's own directory
\* is not a key of the file map; a tool file with "from .base import Tool"
\* gets no import error when tools/base.py is present.
C38_RelativeImportResolved ==
    \A i \in 1..Len(template_files) :
        LET a == template_files[i].k
            code == template_files[i].v
        IN (EndsWithPy(a) /\ Parse(code).ok) =>
              \A n \in 1..Len(RelativeImports(code)) :
                  (ImportErrorsOf(all_errors, a) # <<>>)
                      <=> ~ODHas(template_files,
                                 ImportTarget(a, RelativeImports(code)[n]))

\* The particular case of the tool file.
C38_ToolImportsBase ==
    (/\ ODHas(template_files, <<"tools", "alert.py">>)
     /\ ODGet(template_files, <<"tools", "alert.py">>) = "tpl_social"
     /\ ODHas(template_files, <<"tools", "base.py">>))
    => ImportErrorsOf(all_errors, <<"tools", "alert.py">>) = <<>>

\* The direction that holds: a relative import whose file is absent is
\* reported.
C38_AbsentIsReported ==
    \A i \in 1..Len(template_files) :
        LET a == template_files[i].k
            code == template_files[i].v
        IN (EndsWithPy(a) /\ Parse(code).ok) =>
              \A n \in 1..Len(RelativeImports(code)) :
                  ~ODHas(template_files, ImportTarget(a, RelativeImports(code)[n]))
                      => ImportErrorsOf(all_errors, a) # <<>>

-----------------------------------------------------------------------------
(* C39 *)

-----------------------------------------------------------------------------
(* C40 *)

\* The text holds the confirmation text as a substring.
HoldsConfirmation(text) ==
    \/ text = Confirmation
    \/ \E content \in LLMContents \cup ServiceLLMContents :
          \E i \in 1..Len(content) :
              content[i].text = text /\ content[i].conf = "full"

\* The questions that the last submit_prompt stored.
StoredQuestions ==
    LET asked == threads[last_call.arg].values.user_clarifications
    IN [i \in 1..Len(asked) |-> asked[i].question]

\* C40 (the confirmation is always asked): for every oracle output, the
\* question list stored by the clarification step is non-empty and at least
\* one of its elements contains the confirmation text.
C40_ConfirmationAsked ==
    (last_call.op = "submit_prompt" /\ result.kind = "state") =>
        /\ StoredQuestions # <<>>
        /\ \E i \in 1..Len(StoredQuestions) : HoldsConfirmation(StoredQuestions[i])

\* The part that holds: the stored list is never empty and is never the
\* hard-coded default list.
C40_DefaultNeverUsed ==
    (last_call.op = "submit_prompt" /\ result.kind = "state") =>
        /\ StoredQuestions # <<>>
        /\ StoredQuestions # DefaultQuestions

====
